---- MODULE Spec2Model ----
(***************************************************************************)
(* CandaceCalc: the calculation engine (utils/calculator.ts), the          *)
(* calculator session hook (hooks/calculator/useCalculator) and the        *)
(* undo/redo hook (hooks/calculator/useUndoRedo) as state machines.        *)
(*                                                                         *)
(* Numbers.  A JavaScript number is modelled by the exact rational it      *)
(* denotes: a record [neg, num, den] whose numerator and denominator are   *)
(* naturals of unbounded size, held as sequences of limbs in base 10^4,    *)
(* least significant limb first (<<>> is zero).  The binary rounding error *)
(* of IEEE-754 arithmetic is not modelled; Math.round, toFixed and         *)
(* parseFloat are modelled by what they compute on the exact value.        *)
(* Negative zero is identified with zero: the code never tells them apart  *)
(* (-0 === 0, Math.abs(-0) = 0, (-0).toFixed(d) prints no sign).           *)
(*                                                                         *)
(* Text.  A JavaScript string is a sequence of one-character strings, so   *)
(* that "3.33" is <<"3", ".", "3", "3">>; the error messages, which the    *)
(* code only stores and shows, are TLA+ strings.  The module is written in  *)
(* ASCII: the operator glyphs U+00D7 and U+00F7 are written "*" and "/",   *)
(* the ellipsis U+2026 is written "~".                                     *)
(***************************************************************************)
EXTENDS Integers, Sequences, FiniteSets, TLC

(***************************************************************************)
(* Naturals of unbounded size.                                             *)
(***************************************************************************)
Base == 10000

RECURSIVE BNorm(_)
BNorm(a) ==
  IF a = <<>> THEN <<>>
  ELSE IF a[Len(a)] = 0 THEN BNorm(SubSeq(a, 1, Len(a) - 1))
  ELSE a

RECURSIVE BAddC(_, _, _)
BAddC(a, b, c) ==
  IF a = <<>> /\ b = <<>> THEN (IF c = 0 THEN <<>> ELSE <<c>>)
  ELSE LET x == (IF a = <<>> THEN 0 ELSE Head(a))
                + (IF b = <<>> THEN 0 ELSE Head(b)) + c
       IN  <<x % Base>> \o BAddC(IF a = <<>> THEN <<>> ELSE Tail(a),
                                 IF b = <<>> THEN <<>> ELSE Tail(b),
                                 x \div Base)

BAdd(a, b) == BAddC(a, b, 0)

\* a - b - c, for a >= b + c
RECURSIVE BSubC(_, _, _)
BSubC(a, b, c) ==
  IF a = <<>> THEN <<>>
  ELSE LET x == Head(a) - (IF b = <<>> THEN 0 ELSE Head(b)) - c
       IN  <<(x + Base) % Base>> \o BSubC(Tail(a),
                                          IF b = <<>> THEN <<>> ELSE Tail(b),
                                          IF x < 0 THEN 1 ELSE 0)

BSub(a, b) == BNorm(BSubC(a, b, 0))

RECURSIVE BCmpFrom(_, _, _)
BCmpFrom(a, b, i) ==
  IF i = 0 THEN 0
  ELSE IF a[i] < b[i] THEN -1
  ELSE IF a[i] > b[i] THEN 1
  ELSE BCmpFrom(a, b, i - 1)

\* -1, 0, 1 as a < b, a = b, a > b
BCmp(a, b) ==
  IF Len(a) < Len(b) THEN -1
  ELSE IF Len(a) > Len(b) THEN 1
  ELSE BCmpFrom(a, b, Len(a))

\* a * k + c, for 0 < k <= Base
RECURSIVE BMulSmallC(_, _, _)
BMulSmallC(a, k, c) ==
  IF a = <<>> THEN (IF c = 0 THEN <<>> ELSE <<c>>)
  ELSE LET x == Head(a) * k + c
       IN  <<x % Base>> \o BMulSmallC(Tail(a), k, x \div Base)

BMulSmall(a, k) == IF k = 0 THEN <<>> ELSE BMulSmallC(a, k, 0)

\* a * Base^k
BShift(a, k) == IF a = <<>> THEN <<>> ELSE [i \in 1..k |-> 0] \o a

RECURSIVE BMul(_, _)
BMul(a, b) ==
  IF a = <<>> \/ b = <<>> THEN <<>>
  ELSE BAdd(BMulSmall(a, Head(b)), BShift(BMul(a, Tail(b)), 1))

\* the natural a machine integer n >= 0 denotes
RECURSIVE BOfNat(_)
BOfNat(n) == IF n = 0 THEN <<>> ELSE <<n % Base>> \o BOfNat(n \div Base)

Pow10Small(k) == CASE k = 0 -> 1 [] k = 1 -> 10 [] k = 2 -> 100 [] k = 3 -> 1000

\* 10^k and a * 10^k
BPow10(k) == BShift(<<Pow10Small(k % 4)>>, k \div 4)
BTimesPow10(a, k) == BShift(BMulSmall(a, Pow10Small(k % 4)), k \div 4)

\* the element of a one-element set; The({ F(x) : x \in {e} }) is F(e) with
\* e evaluated once
The(S) == CHOOSE x \in S : TRUE

\* floor(a / k) for a machine integer 0 < k < Base: short division, from the
\* most significant limb a[i] down, r the remainder of the limbs above i
RECURSIVE BDivSmallLoop(_, _, _, _, _)
BDivSmallLoop(a, k, i, q, r) ==
  IF i = 0 THEN BNorm(q)
  ELSE LET cur == r * Base + a[i]
       IN  BDivSmallLoop(a, k, i - 1, <<cur \div k>> \o q, cur % k)

BDivSmall(a, k) == BDivSmallLoop(a, k, Len(a), <<>>, 0)

\* the largest k in lo..hi-1 with k * b <= cur, given lo * b <= cur < hi * b
RECURSIVE QLimb(_, _, _, _)
QLimb(cur, b, lo, hi) ==
  IF hi - lo <= 1 THEN lo
  ELSE LET mid == (lo + hi) \div 2
       IN  IF BCmp(BMulSmall(b, mid), cur) <= 0
           THEN QLimb(cur, b, mid, hi)
           ELSE QLimb(cur, b, lo, mid)

\* floor(a / b): long division, from the most significant limb a[i] down; q and
\* r are the quotient and the remainder of the limbs above i
RECURSIVE BDivLoop(_, _, _, _, _)
BDivLoop(a, b, i, q, r) ==
  IF i = 0 THEN BNorm(q)
  ELSE LET cur == BNorm(<<a[i]>> \o r)
           k   == QLimb(cur, b, 0, Base)
           r2  == BSub(cur, BMulSmall(b, k))
           q2  == <<k>> \o q
       IN  IF Len(r2) + Len(q2) >= 0 THEN BDivLoop(a, b, i - 1, q2, r2)
           ELSE <<>>

\* the number of low zero limbs of b > 0
RECURSIVE LowZeros(_)
LowZeros(b) == IF Head(b) = 0 THEN 1 + LowZeros(Tail(b)) ELSE 0

\* floor(a / b) for b > 0: floor(a / (c * Base^z)) = floor(floor(a / Base^z) / c)
BDiv(a, b) ==
  The({ The({ IF Len(c) = 1 THEN BDivSmall(a1, c[1]) ELSE BDivLoop(a1, c, Len(a1), <<>>, <<>>) :
              c \in {SubSeq(b, z + 1, Len(b))}, a1 \in {SubSeq(a, z + 1, Len(a))} }) :
        z \in {LowZeros(b)} })

(***************************************************************************)
(* Numbers: exact rationals [neg, num, den], den > 0.  A decimal value is  *)
(* kept in one form: den the least power of ten, zero without sign.        *)
(***************************************************************************)
Zero == [neg |-> FALSE, num |-> <<>>, den |-> <<1>>]
IsZero(v) == v.num = <<>>

\* num and den without the low zero limbs they share
RECURSIVE StripLimbs(_, _)
StripLimbs(n, d) ==
  IF Len(d) > 1 /\ Head(d) = 0 /\ Head(n) = 0
  THEN StripLimbs(Tail(n), Tail(d))
  ELSE <<n, d>>

\* the largest k <= 3 with 10^k dividing both limbs
CommonTens(p, q) ==
  IF p % 1000 = 0 /\ q % 1000 = 0 THEN 3
  ELSE IF p % 100 = 0 /\ q % 100 = 0 THEN 2
  ELSE IF p % 10 = 0 /\ q % 10 = 0 THEN 1
  ELSE 0

Canon(v) ==
  IF v.num = <<>> THEN Zero
  ELSE The({ The({ IF k = 0 THEN [neg |-> v.neg, num |-> s[1], den |-> s[2]]
                   ELSE The({ [neg |-> v.neg, num |-> BDivSmall(s[1], p), den |-> BDivSmall(s[2], p)] :
                              p \in {Pow10Small(k)} }) :
                   k \in {CommonTens(s[1][1], s[2][1])} }) :
             s \in {StripLimbs(v.num, v.den)} })

\* the number m / 10^scale, for a machine integer m
Dec(m, scale) ==
  Canon([neg |-> m < 0, num |-> BOfNat(IF m < 0 THEN -m ELSE m), den |-> BPow10(scale)])

NumNeg(v) == IF IsZero(v) THEN v ELSE [v EXCEPT !.neg = ~v.neg]
NumAbs(v) == [v EXCEPT !.neg = FALSE]

\* -1, 0, 1 as v < w, v = w, v > w
NumCmp(v, w) ==
  IF v.neg /\ ~w.neg THEN -1
  ELSE IF ~v.neg /\ w.neg THEN 1
  ELSE LET c == BCmp(BMul(v.num, w.den), BMul(w.num, v.den))
       IN  IF v.neg THEN -c ELSE c

NumAdd(v, w) ==
  The({ The({ Canon(IF v.neg = w.neg THEN [neg |-> v.neg, num |-> BAdd(a, b), den |-> d]
                    ELSE IF c >= 0 THEN [neg |-> v.neg, num |-> BSub(a, b), den |-> d]
                    ELSE [neg |-> w.neg, num |-> BSub(b, a), den |-> d]) :
              c \in {BCmp(a, b)} }) :
        a \in {BMul(v.num, w.den)}, b \in {BMul(w.num, v.den)}, d \in {BMul(v.den, w.den)} })

NumSub(v, w) == NumAdd(v, NumNeg(w))

NumMul(v, w) ==
  Canon([neg |-> v.neg # w.neg, num |-> BMul(v.num, w.num), den |-> BMul(v.den, w.den)])

\* v / w for w # 0
NumDiv(v, w) ==
  Canon([neg |-> v.neg # w.neg, num |-> BMul(v.num, w.den), den |-> BMul(v.den, w.num)])

NumOfBig(neg, n) == Canon([neg |-> neg, num |-> n, den |-> <<1>>])

\* Math.round: the integer nearest to v, a half going up (towards +Infinity):
\* floor(v + 1/2)
MathRound(v) ==
  The({ IF v.neg /\ BCmp(twice, v.den) <= 0 THEN Zero
        ELSE NumOfBig(v.neg, BDiv(IF v.neg THEN BSub(BAdd(twice, v.den), <<1>>)
                                  ELSE BAdd(twice, v.den),
                                  den2)) :
        twice \in {BMulSmall(v.num, 2)}, den2 \in {BMulSmall(v.den, 2)} })

(***************************************************************************)
(* Text and the conversions between text and numbers.                      *)
(***************************************************************************)
DigitChars == <<"0", "1", "2", "3", "4", "5", "6", "7", "8", "9">>
IsDigit(c) == \E n \in 1..10 : DigitChars[n] = c
DigitVal(c) == (CHOOSE n \in 1..10 : DigitChars[n] = c) - 1
DigitChar(n) == DigitChars[n + 1]

\* the decimal digits of the limbs of a, four a limb, most significant first
LimbsText(a) ==
  [i \in 1..(4 * Len(a)) |->
     DigitChar((a[Len(a) - ((i - 1) \div 4)] \div Pow10Small(3 - ((i - 1) % 4))) % 10)]

\* t without its leading zeros, but for the last character
DropLeadingZeros(t) ==
  LET first == IF \A i \in 1..Len(t) : t[i] = "0" THEN Len(t)
               ELSE CHOOSE i \in 1..Len(t) : t[i] # "0" /\ \A j \in 1..(i - 1) : t[j] = "0"
  IN  SubSeq(t, first, Len(t))

\* the decimal digits of a natural, most significant first ("0" for zero)
BText(a) ==
  IF a = <<>> THEN <<"0">> ELSE The({ DropLeadingZeros(t) : t \in {LimbsText(a)} })

\* limb k (1 the least significant) of the natural the digits s denote
LimbOfText(s, k) ==
  LET at(j) == IF Len(s) - 4 * (k - 1) - j >= 1 THEN DigitVal(s[Len(s) - 4 * (k - 1) - j]) ELSE 0
  IN  at(0) + 10 * at(1) + 100 * at(2) + 1000 * at(3)

\* the natural a sequence of decimal digits denotes (zero for no digit)
BOfText(s) ==
  The({ BNorm(limbs) : limbs \in {[k \in 1..((Len(s) + 3) \div 4) |-> LimbOfText(s, k)]} })

\* the length of the longest run of decimal digits of s that starts at i
DigitRun(s, i) ==
  CHOOSE k \in 0..(Len(s) + 1 - i) :
    /\ \A j \in i..(i + k - 1) : IsDigit(s[j])
    /\ i + k > Len(s) \/ ~IsDigit(s[i + k])

\* not-a-number: the one value that is no rational (0/0)
NaN == [neg |-> FALSE, num |-> <<>>, den |-> <<>>]

\* the two infinite values (1/0 and -1/0)
Infinity(neg) == [neg |-> neg, num |-> <<1>>, den |-> <<>>]

\* the text of an infinite value after its sign
InfinityText == <<"I", "n", "f", "i", "n", "i", "t", "y">>

\* parseFloat on a text without leading blanks and without exponent: the
\* longest prefix of the form [+-] digits [. digits] with at least one digit
\* is converted, whatever follows it is ignored; [+-] Infinity is infinite;
\* NaN when there is neither
ParseFloat(s) ==
  The({ The({ The({ IF nf = 0 /\ dot = start
                    THEN IF Len(s) >= start + 7 /\ SubSeq(s, start, start + 7) = InfinityText
                         THEN Infinity(s[1] = "-") ELSE NaN
                    ELSE Canon([neg |-> s[1] = "-",
                                num |-> BOfText(SubSeq(s, start, dot - 1) \o SubSeq(s, dot + 1, dot + nf)),
                                den |-> BPow10(nf)]) :
                    nf \in {IF dot <= Len(s) /\ s[dot] = "." THEN DigitRun(s, dot + 1) ELSE 0} }) :
              dot \in {start + DigitRun(s, start)} }) :
        start \in {IF Len(s) >= 1 /\ s[1] \in {"-", "+"} THEN 2 ELSE 1} })

\* the digits txt of an integer n as n / 10^digits, signed
FixedText(neg, txt, digits) ==
  LET pad  == IF Len(txt) <= digits THEN [i \in 1..(digits + 1 - Len(txt)) |-> "0"] \o txt
              ELSE txt
      body == IF digits = 0 THEN pad
              ELSE SubSeq(pad, 1, Len(pad) - digits) \o <<".">>
                   \o SubSeq(pad, Len(pad) - digits + 1, Len(pad))
  IN  IF neg THEN <<"-">> \o body ELSE body

\* Number.prototype.toFixed(digits): the nearest decimal with that many
\* fraction digits (a half going up in magnitude), "-" before it when v < 0
ToFixed(v, digits) ==
  The({ FixedText(v.neg, txt, digits) :
        txt \in {BText(BDiv(BAdd(BMulSmall(BTimesPow10(v.num, digits), 2), v.den),
                            BMulSmall(v.den, 2)))} })

(***************************************************************************)
(* constants/calculator.ts and types/calculator.ts                         *)
(***************************************************************************)
MAX_DISPLAY_LENGTH == 15
DECIMAL_PLACES_CHECKBOOK == 2
DECIMAL_PLACES_SCIENTIFIC == 8
UNDO_REDO_STACK_SIZE == 20

CalculatorMode == {"checkbook", "scientific"}
PLUS == "+"
MINUS == "-"
TIMES == "*"
DIVIDE == "/"
Operations == {PLUS, MINUS, TIMES, DIVIDE}
null == "null"
ELLIPSIS == "~"

(***************************************************************************)
(* utils/calculator.ts: CalculatorEngine                                   *)
(***************************************************************************)
DIVIDE_BY_ZERO_MESSAGE ==
  "Cannot divide by zero. This would create an infinite number. Press C to start fresh or (undo) to undo."
TOO_LARGE_MESSAGE ==
  "This number is too large to display. The maximum is 999,999,999.99. Press C to start over."

\* the literal 999999999.99 of the range checks
MAX_VALUE == [neg |-> FALSE, num |-> <<9999, 9999, 999>>, den |-> <<100>>]

DecimalPlaces(mode) ==
  IF mode = "checkbook" THEN DECIMAL_PLACES_CHECKBOOK ELSE DECIMAL_PLACES_SCIENTIFIC

roundToMode(value, mode) ==
  LET decimalPlaces == DecimalPlaces(mode)
      factor        == NumOfBig(FALSE, BPow10(decimalPlaces))
  IN  NumDiv(MathRound(NumMul(value, factor)), factor)

\* the switch over the operation, for second # 0 when dividing
RawResult(firstValue, operation, secondValue) ==
  CASE operation = PLUS   -> NumAdd(firstValue, secondValue)
    [] operation = MINUS  -> NumSub(firstValue, secondValue)
    [] operation = TIMES  -> NumMul(firstValue, secondValue)
    [] operation = DIVIDE -> NumDiv(firstValue, secondValue)

DivideByZeroError == [result |-> Zero, error |-> TRUE, errorMessage |-> DIVIDE_BY_ZERO_MESSAGE]
TooLargeError == [result |-> Zero, error |-> TRUE, errorMessage |-> TOO_LARGE_MESSAGE]
Success(result) == [result |-> result, error |-> FALSE, errorMessage |-> ""]

\* calculate with the zero test on the wrong operand: x / 0 is then Infinity,
\* which the range check reports as too large
calculateZeroTestOnFirst(firstValue, operation, secondValue, mode) ==
  IF operation \notin Operations THEN Success(Zero)
  ELSE IF operation = DIVIDE /\ IsZero(firstValue) THEN DivideByZeroError
  ELSE IF operation = DIVIDE /\ IsZero(secondValue) THEN TooLargeError
  ELSE LET result == roundToMode(RawResult(firstValue, operation, secondValue), mode)
       IN  IF NumCmp(NumAbs(result), MAX_VALUE) > 0 THEN TooLargeError ELSE Success(result)

\* calculate with the range check ahead of the rounding
calculateBoundBeforeRounding(firstValue, operation, secondValue, mode) ==
  IF operation \notin Operations THEN Success(Zero)
  ELSE IF operation = DIVIDE /\ IsZero(secondValue) THEN DivideByZeroError
  ELSE LET raw == RawResult(firstValue, operation, secondValue)
       IN  IF NumCmp(NumAbs(raw), MAX_VALUE) > 0 THEN TooLargeError
           ELSE Success(roundToMode(raw, mode))

\* a missing operation (null) returns 0 without error; an unknown one cannot be
\* passed (the Operation type)
calculate(firstValue, operation, secondValue, mode) ==
  IF operation \notin Operations THEN Success(Zero)
  ELSE IF operation = DIVIDE /\ IsZero(secondValue) THEN DivideByZeroError
  ELSE The({ IF NumCmp(NumAbs(result), MAX_VALUE) > 0 THEN TooLargeError ELSE Success(result) :
             result \in {roundToMode(RawResult(firstValue, operation, secondValue), mode)} })

\* formatForDisplay of a number, without currency symbol (the default argument)
formatForDisplay(value, mode) ==
  The({ IF Len(fixed) > MAX_DISPLAY_LENGTH
        THEN SubSeq(fixed, 1, MAX_DISPLAY_LENGTH) \o <<ELLIPSIS>>
        ELSE fixed :
        fixed \in {ToFixed(value, DecimalPlaces(mode))} })

getDisplayValue(displayStr) ==
  IF displayStr = <<>> \/ displayStr = <<"-">> THEN Zero
  ELSE The({ IF num = NaN THEN Zero ELSE num : num \in {ParseFloat(displayStr)} })

\* formatForDisplay of a text that cuts one character later
formatForDisplayOfTextCutLate(value, mode, currencySymbol) ==
  The({ IF currencySymbol # "" /\ mode = "checkbook" THEN <<currencySymbol>> \o display
        ELSE display :
        display \in {IF Len(value) > MAX_DISPLAY_LENGTH + 1
                     THEN SubSeq(value, 1, MAX_DISPLAY_LENGTH + 1) \o <<ELLIPSIS>>
                     ELSE value} })

\* formatForDisplay of a text: toString leaves it as it is
formatForDisplayOfText(value, mode, currencySymbol) ==
  The({ IF currencySymbol # "" /\ mode = "checkbook" THEN <<currencySymbol>> \o display
        ELSE display :
        display \in {IF Len(value) > MAX_DISPLAY_LENGTH
                     THEN SubSeq(value, 1, MAX_DISPLAY_LENGTH) \o <<ELLIPSIS>>
                     ELSE value} })

\* !isNaN(parseFloat(str)) && isFinite(parseFloat(str)): the infinite values
\* and NaN are the values without denominator
isValidNumber(str) ==
  The({ v # NaN /\ v.den # <<>> : v \in {ParseFloat(str)} })

(***************************************************************************)
(* hooks/useCalculator.ts: the session state machine.  A text is a sequence *)
(* of characters; a number-or-null is <<>> (null) or <<number>>.            *)
(***************************************************************************)
INITIAL_STATE ==
  [display |-> <<"0">>, expression |-> <<>>, previousValue |-> <<>>, operation |-> null,
   waitingForOperand |-> FALSE, error |-> FALSE, errorMessage |-> ""]

\* handleNumberPress clearing the error without the reset to INITIAL_STATE
handleNumberPressKeepingOperands(prev, digit) ==
  IF prev.error
  THEN [prev EXCEPT !.display = <<digit>>, !.waitingForOperand = FALSE,
                    !.error = FALSE, !.errorMessage = ""]
  ELSE IF prev.waitingForOperand
  THEN [prev EXCEPT !.display = <<digit>>, !.waitingForOperand = FALSE]
  ELSE IF prev.display = <<"0">> /\ digit # "."
  THEN [prev EXCEPT !.display = <<digit>>]
  ELSE [prev EXCEPT !.display = prev.display \o <<digit>>]

handleNumberPress(prev, digit) ==
  IF prev.error
  THEN [INITIAL_STATE EXCEPT !.display = <<digit>>, !.waitingForOperand = FALSE]
  ELSE IF prev.waitingForOperand
  THEN [prev EXCEPT !.display = <<digit>>, !.waitingForOperand = FALSE]
  ELSE IF prev.display = <<"0">> /\ digit # "."
  THEN [prev EXCEPT !.display = <<digit>>]
  ELSE [prev EXCEPT !.display = prev.display \o <<digit>>]

operatorSymbol(newOperation) == IF newOperation = null THEN <<>> ELSE <<newOperation>>

\* the state after an operator key that completes a pending operation, r being
\* what calculate returned and displayResult the formatted result
operatorPressCalculated(prev, newOperation, r, displayResult) ==
  IF r.error
  THEN [prev EXCEPT !.error = TRUE, !.errorMessage = r.errorMessage,
                    !.display = <<"0">>, !.expression = <<>>]
  ELSE [prev EXCEPT !.display = displayResult,
                    !.expression = displayResult \o <<" ">> \o operatorSymbol(newOperation),
                    !.previousValue = <<r.result>>,
                    !.operation = newOperation,
                    !.waitingForOperand = TRUE,
                    !.error = FALSE, !.errorMessage = ""]

\* handleOperatorPress without the evaluation of a pending operation: the
\* operand on the display replaces the first operand
handleOperatorPressLatest(prev, newOperation, mode) ==
  IF prev.error THEN prev
  ELSE The({ [prev EXCEPT !.previousValue = <<currentValue>>,
                          !.expression = prev.display \o <<" ">> \o operatorSymbol(newOperation),
                          !.operation = newOperation,
                          !.waitingForOperand = TRUE,
                          !.error = FALSE, !.errorMessage = ""] :
             currentValue \in {getDisplayValue(prev.display)} })

\* handleOperatorPress that stores the operator and no first operand
handleOperatorPressWithoutOperand(prev, newOperation, mode) ==
  IF prev.error THEN prev
  ELSE [prev EXCEPT !.expression = prev.display \o <<" ">> \o operatorSymbol(newOperation),
                    !.operation = newOperation,
                    !.waitingForOperand = TRUE]

\* handleOperatorPress without its guard on error: the operator is stored in
\* an Error state too
handleOperatorPressInError(prev, newOperation, mode) ==
  [prev EXCEPT !.previousValue = <<getDisplayValue(prev.display)>>,
               !.expression = prev.display \o <<" ">> \o operatorSymbol(newOperation),
               !.operation = newOperation,
               !.waitingForOperand = TRUE,
               !.error = FALSE, !.errorMessage = ""]

handleOperatorPress(prev, newOperation, mode) ==
  IF prev.error THEN prev
  ELSE The({ IF prev.previousValue # <<>> /\ prev.operation # null /\ ~prev.waitingForOperand
             THEN The({ The({ operatorPressCalculated(prev, newOperation, r, displayResult) :
                              displayResult \in {formatForDisplay(r.result, mode)} }) :
                        r \in {calculate(prev.previousValue[1], prev.operation, currentValue, mode)} })
             ELSE [prev EXCEPT !.previousValue = <<currentValue>>,
                               !.expression = prev.display \o <<" ">> \o operatorSymbol(newOperation),
                               !.operation = newOperation,
                               !.waitingForOperand = TRUE,
                               !.error = FALSE, !.errorMessage = ""] :
             currentValue \in {getDisplayValue(prev.display)} })

\* equalsCalculated with the display left as it is when calculate failed
equalsCalculatedKeepingDisplay(prev, r, displayResult) ==
  IF r.error
  THEN [prev EXCEPT !.error = TRUE, !.errorMessage = r.errorMessage,
                    !.expression = <<>>, !.waitingForOperand = TRUE]
  ELSE [prev EXCEPT !.display = displayResult,
                    !.expression = prev.expression \o <<" ">> \o prev.display
                                   \o <<" ", "=", " ">> \o displayResult,
                    !.previousValue = <<r.result>>,
                    !.operation = null,
                    !.waitingForOperand = TRUE,
                    !.error = FALSE, !.errorMessage = ""]

\* the state after the equals key, r being what calculate returned and
\* displayResult the formatted result
equalsCalculated(prev, r, displayResult) ==
  IF r.error
  THEN [prev EXCEPT !.error = TRUE, !.errorMessage = r.errorMessage,
                    !.display = <<"0">>, !.expression = <<>>, !.waitingForOperand = TRUE]
  ELSE [prev EXCEPT !.display = displayResult,
                    !.expression = prev.expression \o <<" ">> \o prev.display
                                   \o <<" ", "=", " ">> \o displayResult,
                    !.previousValue = <<r.result>>,
                    !.operation = null,
                    !.waitingForOperand = TRUE,
                    !.error = FALSE, !.errorMessage = ""]

\* handleEquals with the operands of the calculation exchanged
handleEqualsSwapped(prev, mode) ==
  IF prev.error \/ prev.operation = null \/ prev.previousValue = <<>> THEN prev
  ELSE The({ The({ equalsCalculated(prev, r, displayResult) :
                   displayResult \in {formatForDisplay(r.result, mode)} }) :
             r \in { The({ calculate(currentValue, prev.operation, prev.previousValue[1], mode) :
                           currentValue \in {getDisplayValue(prev.display)} }) } })

handleEquals(prev, mode) ==
  IF prev.error \/ prev.operation = null \/ prev.previousValue = <<>> THEN prev
  ELSE The({ The({ equalsCalculated(prev, r, displayResult) :
                   displayResult \in {formatForDisplay(r.result, mode)} }) :
             r \in { The({ calculate(prev.previousValue[1], prev.operation, currentValue, mode) :
                           currentValue \in {getDisplayValue(prev.display)} }) } })

Includes(text, c) == \E i \in 1..Len(text) : text[i] = c

handleDecimal(prev) ==
  IF prev.error THEN [INITIAL_STATE EXCEPT !.display = <<"0", ".">>]
  ELSE IF prev.waitingForOperand
  THEN [prev EXCEPT !.display = <<"0", ".">>, !.waitingForOperand = FALSE]
  ELSE IF Includes(prev.display, ".") THEN prev
  ELSE [prev EXCEPT !.display = prev.display \o <<".">>]

\* Number.prototype.toString of a decimal v with 1e-6 <= |v| < 1e21 (or 0) and
\* at most 15 significant digits: its digits without exponent, no zeros after
\* the last fraction digit, no point when there is no fraction
NumberToString(v) ==
  The({ FixedText(v.neg, BText(v.num), Len(den) - 1) : den \in {BText(v.den)} })

\* handleNegative on the text: the sign is put before the display or taken
\* from it
handleNegativeOfText(prev) ==
  IF prev.error THEN prev
  ELSE [prev EXCEPT !.display = IF Head(prev.display) = "-" THEN Tail(prev.display)
                                ELSE <<"-">> \o prev.display]

handleNegative(prev) ==
  IF prev.error THEN prev
  ELSE The({ [prev EXCEPT !.display = IF IsZero(toggled) THEN <<"0">>
                                      ELSE NumberToString(toggled)] :
             toggled \in {NumNeg(getDisplayValue(prev.display))} })

\* handleBackspace without the "0" in place of the empty text
handleBackspaceToEmpty(prev) ==
  IF prev.error \/ prev.waitingForOperand THEN prev
  ELSE [prev EXCEPT !.display = SubSeq(prev.display, 1, Len(prev.display) - 1)]

handleBackspace(prev) ==
  IF prev.error \/ prev.waitingForOperand THEN prev
  ELSE The({ [prev EXCEPT !.display = IF newDisplay = <<>> THEN <<"0">> ELSE newDisplay] :
             newDisplay \in {SubSeq(prev.display, 1, Len(prev.display) - 1)} })

\* handleClear that also forgets the pending operation
handleClearAll(prev) ==
  [prev EXCEPT !.display = <<"0">>, !.waitingForOperand = TRUE,
               !.error = FALSE, !.errorMessage = "",
               !.previousValue = <<>>, !.operation = null]

handleClear(prev) ==
  [prev EXCEPT !.display = <<"0">>, !.waitingForOperand = TRUE,
               !.error = FALSE, !.errorMessage = ""]

handleAllClear(prev) == INITIAL_STATE

(***************************************************************************)
(* hooks/useUndoRedo.ts: the History Manager.  undoRedo is                 *)
(* [stack, currentIndex], the index counting from 0 as in the source;      *)
(* feedback is <<>> (null) or <<[message, isUndo]>>.  A call is modelled   *)
(* by what its state updater returns: the new undoRedo, the arguments of   *)
(* its setFeedback call and of its onStateChange call (<<>> for no call).  *)
(* The updater runs once per call.                                         *)
(***************************************************************************)
UNDO_SIGN == "<~"
REDO_SIGN == "~>"

\* stack[i] of the source
At(stack, i) == stack[i + 1]

\* pushState without the size limit
pushStateUnbounded(prev, newState) ==
  LET newStack == Append(SubSeq(prev.stack, 1, prev.currentIndex + 1), newState)
  IN  [stack |-> newStack, currentIndex |-> Len(newStack) - 1]

\* pushState that keeps the redo entries
pushStateKeepingRedo(prev, newState) ==
  LET newStack == Append(prev.stack, newState)
  IN  IF Len(newStack) > UNDO_REDO_STACK_SIZE
      THEN [stack |-> Tail(newStack), currentIndex |-> UNDO_REDO_STACK_SIZE - 1]
      ELSE [stack |-> newStack, currentIndex |-> Len(newStack) - 1]

\* pushState that makes room by dropping the snapshot pushed last
pushStateEvictingLatest(prev, newState) ==
  LET kept == SubSeq(prev.stack, 1, prev.currentIndex + 1)
  IN  IF Len(kept) + 1 > UNDO_REDO_STACK_SIZE
      THEN [stack |-> Append(SubSeq(kept, 1, Len(kept) - 1), newState),
            currentIndex |-> UNDO_REDO_STACK_SIZE - 1]
      ELSE [stack |-> Append(kept, newState), currentIndex |-> Len(kept)]

pushState(prev, newState) ==
  LET newStack == Append(SubSeq(prev.stack, 1, prev.currentIndex + 1), newState)
  IN  IF Len(newStack) > UNDO_REDO_STACK_SIZE
      THEN [stack |-> Tail(newStack), currentIndex |-> UNDO_REDO_STACK_SIZE - 1]
      ELSE [stack |-> newStack, currentIndex |-> Len(newStack) - 1]

operationText(operation) ==
  CASE operation = PLUS   -> "added"
    [] operation = MINUS  -> "subtracted"
    [] operation = TIMES  -> "multiplied by"
    [] operation = DIVIDE -> "divided by"
    [] OTHER              -> "changed to"

undoMessage(previousState) ==
  UNDO_SIGN \o " Undid last operation"
  \o (IF previousState.operation # null
      THEN ": " \o operationText(previousState.operation) ELSE "")

NoChange(prev) == [undoRedo |-> prev, setFeedback |-> <<>>, onStateChange |-> <<>>]

\* undo that hands over the snapshot it leaves instead of the one it restores
undoDeliveringCurrent(prev) ==
  IF prev.currentIndex <= 0 THEN NoChange(prev)
  ELSE [undoRedo      |-> [prev EXCEPT !.currentIndex = prev.currentIndex - 1],
        setFeedback   |-> <<[message |-> undoMessage(At(prev.stack, prev.currentIndex - 1)),
                             isUndo |-> TRUE]>>,
        onStateChange |-> <<At(prev.stack, prev.currentIndex)>>]

\* undo without the test of the index
undoUnguarded(prev) ==
  LET newIndex == IF prev.currentIndex <= 0 THEN 0 ELSE prev.currentIndex - 1
  IN  [undoRedo      |-> [prev EXCEPT !.currentIndex = newIndex],
       setFeedback   |-> <<[message |-> undoMessage(At(prev.stack, newIndex)), isUndo |-> TRUE]>>,
       onStateChange |-> <<At(prev.stack, newIndex)>>]

undo(prev) ==
  IF prev.currentIndex <= 0 THEN NoChange(prev)
  ELSE LET newIndex      == prev.currentIndex - 1
           previousState == At(prev.stack, newIndex)
       IN  [undoRedo      |-> [prev EXCEPT !.currentIndex = newIndex],
            setFeedback   |-> <<[message |-> undoMessage(previousState), isUndo |-> TRUE]>>,
            onStateChange |-> <<previousState>>]

\* redo that steps over a snapshot
redoSkipping(prev) ==
  IF prev.currentIndex >= Len(prev.stack) - 1 THEN NoChange(prev)
  ELSE LET newIndex == IF prev.currentIndex + 2 <= Len(prev.stack) - 1
                       THEN prev.currentIndex + 2 ELSE prev.currentIndex + 1
       IN  [undoRedo      |-> [prev EXCEPT !.currentIndex = newIndex],
            setFeedback   |-> <<[message |-> REDO_SIGN \o " Redid operation", isUndo |-> FALSE]>>,
            onStateChange |-> <<At(prev.stack, newIndex)>>]

\* redo without its guard: the index steps past the last snapshot
redoPastTheEnd(prev) ==
  LET newIndex == prev.currentIndex + 1
  IN  [undoRedo      |-> [prev EXCEPT !.currentIndex = newIndex],
       setFeedback   |-> <<[message |-> REDO_SIGN \o " Redid operation", isUndo |-> FALSE]>>,
       onStateChange |-> IF newIndex <= Len(prev.stack) - 1
                         THEN <<At(prev.stack, newIndex)>> ELSE <<>>]

redo(prev) ==
  IF prev.currentIndex >= Len(prev.stack) - 1 THEN NoChange(prev)
  ELSE LET newIndex  == prev.currentIndex + 1
           nextState == At(prev.stack, newIndex)
       IN  [undoRedo      |-> [prev EXCEPT !.currentIndex = newIndex],
            setFeedback   |-> <<[message |-> REDO_SIGN \o " Redid operation", isUndo |-> FALSE]>>,
            onStateChange |-> <<nextState>>]

canUndo(ur) == ur.currentIndex > 0
canRedo(ur) == ur.currentIndex < Len(ur.stack) - 1

clear(initialState) == [stack |-> <<initialState>>, currentIndex |-> 0]

(***************************************************************************)
(* app/(tabs)/index.tsx: CalculatorScreen, the two hooks put together.     *)
(* The screen is a record a:                                               *)
(*   state, undoRedo, feedback   the states of the two hooks               *)
(*   ref, refs   which object the session state is, and which objects the  *)
(*               snapshots of the stack are: 0 is the constant             *)
(*               INITIAL_STATE, n > 0 the n-th object an updater created   *)
(*               (React compares states by identity, not by content)       *)
(*   next        the number of objects created so far                      *)
(*   timers      the pending setTimeout callbacks of handleEquals, each    *)
(*               with the session state its closure holds                  *)
(*   history     the entries saved, newest first                           *)
(*   shown       how many feedback messages have been set so far           *)
(*   indicator   the pending auto-dismiss timer of UndoRedoIndicator:      *)
(*               <<>>, or <<n>> when it was armed while the n-th feedback  *)
(*               message was shown                                         *)
(* An event is a key (a digit, ".", "neg", an operation, "=", "back", "C", *)
(* "AC"), "undo", "redo", "errorUndo" (the undo button of the error        *)
(* modal), "select" (the newest entry of the receipt tape is selected),    *)
(* "tick" (the oldest pending timer of handleEquals fires and its save     *)
(* is done), "errorTimeout" (the auto-dismiss timer of the error modal     *)
(* fires) or "feedbackTimeout" (that of the indicator fires).  Every event *)
(* is rendered, and the effects of the render have run, before the next.   *)
(***************************************************************************)
CURRENCY_SYMBOL == "$"

\* formatExpression(firstValue, operation, secondValue, currencySymbol)
formatExpression(firstValue, operation, secondValue, currencySymbol) ==
  IF operation # null /\ secondValue # <<>>
  THEN <<currencySymbol>> \o ToFixed(firstValue, 2) \o <<" ", operation, " ">>
       \o <<currencySymbol>> \o ToFixed(secondValue[1], 2)
  ELSE <<currencySymbol>> \o ToFixed(firstValue, 2)

\* formatForDisplay with its third argument
formatForDisplayWith(value, mode, currencySymbol) ==
  IF currencySymbol # "" /\ mode = "checkbook"
  THEN <<currencySymbol>> \o formatForDisplay(value, mode)
  ELSE formatForDisplay(value, mode)

\* the updater of useCalculator a key runs
press(prev, key, mode) ==
  CASE IsDigit(key)          -> handleNumberPress(prev, key)
    [] key = "."             -> handleDecimal(prev)
    [] key = "neg"           -> handleNegative(prev)
    [] key \in Operations    -> handleOperatorPress(prev, key, mode)
    [] key = "="             -> handleEquals(prev, mode)
    [] key = "back"          -> handleBackspace(prev)
    [] key = "C"             -> handleClear(prev)

\* the updater of the key returns prev itself: the state object stays, nothing
\* is rendered and no effect runs
bailsOut(prev, key) ==
  CASE key = "."          -> ~prev.error /\ ~prev.waitingForOperand /\ Includes(prev.display, ".")
    [] key = "neg"        -> prev.error
    [] key \in Operations -> prev.error
    [] key = "="          -> prev.error \/ prev.operation = null \/ prev.previousValue = <<>>
    [] key = "back"       -> prev.error \/ prev.waitingForOperand
    [] OTHER              -> FALSE

Mounted ==
  [state |-> INITIAL_STATE,
   undoRedo |-> pushState([stack |-> <<INITIAL_STATE>>, currentIndex |-> 0], INITIAL_STATE),
   feedback |-> <<>>, ref |-> 0, refs |-> <<0, 0>>, next |-> 0,
   timers |-> <<>>, history |-> <<>>, shown |-> 0, indicator |-> <<>>]

\* an effect that pushes no Error state
pushEffectSkippingErrors(a, newState, ref) ==
  IF newState.error THEN a
  ELSE [a EXCEPT !.undoRedo = pushState(a.undoRedo, newState),
                 !.refs = pushState([stack |-> a.refs,
                                     currentIndex |-> a.undoRedo.currentIndex], ref).stack]

\* useEffect(() => undoRedo.pushState(calculator.state), [calculator.state])
pushEffect(a, newState, ref) ==
  [a EXCEPT !.undoRedo = pushState(a.undoRedo, newState),
            !.refs = pushState([stack |-> a.refs,
                                currentIndex |-> a.undoRedo.currentIndex], ref).stack]

\* setState(newState), newState being the object ref, and the render after it
setState(a, newState, ref) ==
  IF ref = a.ref THEN a
  ELSE [pushEffect(a, newState, ref) EXCEPT
          !.state = newState, !.ref = ref, !.next = IF ref > a.next THEN ref ELSE a.next]

\* the effect of UndoRedoIndicator after setFeedback(feedback): the indicator
\* is mounted while a feedback is shown; its effect arms the timer when it is
\* mounted and does not run again while visible stays true
feedbackSet(a, feedback) ==
  [a EXCEPT !.feedback = feedback, !.shown = a.shown + 1,
            !.indicator = IF a.feedback = <<>> THEN <<a.shown + 1>> ELSE a.indicator]

\* handleUndo, handleRedo: r is what the updater of undo, redo returned
restored(a, r) ==
  IF r.onStateChange = <<>> THEN a
  ELSE setState([feedbackSet(a, r.setFeedback) EXCEPT !.undoRedo = r.undoRedo],
                r.onStateChange[1], a.refs[r.undoRedo.currentIndex + 1])

\* the callback handleEquals left with setTimeout: it reads the session state
\* of the render in which the key was pressed
saveTimeout(a, mode) ==
  LET held == Head(a.timers)
      done == [a EXCEPT !.timers = Tail(a.timers)]
  IN  IF ~held.error /\ held.operation = null
      THEN The({ [done EXCEPT !.history =
                    <<[expression |-> formatExpression(
                                        IF held.previousValue = <<>> THEN Zero
                                        ELSE held.previousValue[1],
                                        held.operation, <<result>>, CURRENCY_SYMBOL),
                       result |-> result,
                       displayResult |-> formatForDisplayWith(result, mode, CURRENCY_SYMBOL)]>>
                    \o a.history] :
                 result \in {getDisplayValue(held.display)} })
      ELSE done

\* handleHistoryItemSelect(item)
historyItemSelected(item) ==
  [INITIAL_STATE EXCEPT !.display = item.displayResult, !.expression = item.expression,
                        !.waitingForOperand = TRUE]

\* the screen after an event
appStep(a, ev, mode) ==
  CASE ev = "AC"        -> setState(a, handleAllClear(a.state), 0)
    [] ev = "undo"      -> restored(a, undo(a.undoRedo))
    [] ev = "redo"      -> restored(a, redo(a.undoRedo))
    [] ev = "errorUndo" -> IF canUndo(a.undoRedo) THEN restored(a, undo(a.undoRedo))
                           ELSE setState(a, handleAllClear(a.state), 0)
    [] ev = "tick"      -> IF a.timers = <<>> THEN a ELSE saveTimeout(a, mode)
    [] ev = "errorTimeout"    -> IF a.state.error THEN setState(a, handleAllClear(a.state), 0)
                                 ELSE a
    [] ev = "feedbackTimeout" -> IF a.indicator = <<>> THEN a
                                 ELSE [a EXCEPT !.feedback = <<>>, !.indicator = <<>>]
    [] ev = "select"    -> IF a.history = <<>> THEN a
                           ELSE setState(a, historyItemSelected(a.history[1]), a.next + 1)
    [] OTHER            -> The({ IF bailsOut(a.state, ev) THEN b
                                 ELSE setState(b, press(a.state, ev, mode), a.next + 1) :
                                 b \in {IF ev = "=" THEN [a EXCEPT !.timers = Append(a.timers, a.state)]
                                        ELSE a} })

\* the screen after a sequence of events, from the mount on
RECURSIVE appAfter(_, _)
appAfter(evs, mode) ==
  IF evs = <<>> THEN Mounted
  ELSE The({ The({ appStep(a, evs[Len(evs)], mode) : a \in {appAfter(front, mode)} }) :
             front \in {SubSeq(evs, 1, Len(evs) - 1)} })

(***************************************************************************)
(* utils/storage.ts over AsyncStorage.  The storage is a record d:         *)
(*   items     what is stored under the history key: the entries, newest   *)
(*             first (nothing stored reads as the empty list)              *)
(*   settings  <<>> (nothing stored) or <<the mode of the settings stored>>*)
(*   balance   <<>> or <<the text stored under the last-balance key>>      *)
(* getItem and setItem are atomic, and each of them may fail (throw);      *)
(* fails says whether the one a function awaits does.  A call of           *)
(* saveCalculationToHistory is a record c: its pc ("read": awaiting        *)
(* getHistory, "write": awaiting setItem, "then": resolved, the callback   *)
(* of the screen pending, "done"), its arguments, the list it has read     *)
(* with its new entry in front, and what it resolved to (<<>> for null).   *)
(***************************************************************************)
getDefaultSettings ==
  [mode |-> "checkbook", lcdColor |-> "amber", soundEnabled |-> TRUE,
   retentionDays |-> 90, currencySymbol |-> "$", showModeWarning |-> TRUE]

getHistory(d, fails) == IF fails THEN <<>> ELSE d.items

loadSettings(d, fails) ==
  IF fails \/ d.settings = <<>> THEN getDefaultSettings
  ELSE [getDefaultSettings EXCEPT !.mode = d.settings[1]]

getLastBalance(d, fails) ==
  IF fails \/ d.balance = <<>> THEN Zero ELSE ParseFloat(d.balance[1])

\* saveCalculationToHistory that returns its entry although setItem failed
historyWrittenAnyway(c, fails) ==
  [c EXCEPT !.pc = "then", !.ret = <<c.history[1]>>]

\* saveCalculationToHistory after its second await: the entry, or null from
\* the catch block
historyWritten(c, fails) ==
  [c EXCEPT !.pc = "then", !.ret = IF fails THEN <<>> ELSE <<c.history[1]>>]

(***************************************************************************)
(* State.                                                                  *)
(*   call, ret     one call of a CalculatorEngine function and what it     *)
(*                 returned (<<>> until it has returned)                   *)
(*   state, mode   the session: useCalculator's state and its mode         *)
(*   script        what has been keyed in so far, when the keys follow the *)
(*                 script digits, operator, digits, equals                 *)
(*   undoRedo, feedback   the two states of useUndoRedo                    *)
(*   hist          the last call on the History Manager: its name, the     *)
(*                 argument its callback received (<<>>: not invoked) and, *)
(*                 for pushState, undo and redo, the currentIndex and the  *)
(*                 length of the stack before it                           *)
(*   run           the calls since the manager was fresh, while they are   *)
(*                 pushes, then undos, then one redo: how many pushes and  *)
(*                 undos                                                   *)
(*   env           the snapshots pushed since the manager was fresh, and   *)
(*                 how many of these pushes discarded redo entries         *)
(*   app           what CalculatorScreen holds besides the states of the   *)
(*                 two hooks: ref, refs, next, timers, history             *)
(*   typed         the events of the screen since it was mounted, the      *)
(*                 session state before the last of them, and how many of  *)
(*                 them followed the first ones (those of Init)            *)
(*   disk          the storage (items, settings, balance), the calls of    *)
(*                 saveCalculationToHistory made so far, the clock, whether*)
(*                 a storage operation has failed, and the last read of    *)
(*                 getHistory, loadSettings or getLastBalance (<<>>: none) *)
(***************************************************************************)
VARIABLES call, ret, state, mode, script, undoRedo, feedback, hist, run, env, app, typed,
          disk

engineVars == <<call, ret>>
sessionVars == <<state, mode, script>>
historyVars == <<undoRedo, feedback, hist, run, env>>
appVars == <<app, typed, disk>>
vars == <<call, ret, state, mode, script, undoRedo, feedback, hist, run, env, app, typed, disk>>

NoCall == [fn |-> "none", firstValue |-> Zero, operation |-> null, secondValue |-> Zero,
           mode |-> "checkbook"]
NoScript == [phase |-> "none", a |-> <<>>, op |-> null, b |-> <<>>]
NoHist == [op |-> "none", onStateChange |-> <<>>, before |-> <<>>]
FreshRun == [shape |-> "pushes", pushes |-> 0, undos |-> 0]
FreeRun == [shape |-> "free", pushes |-> 0, undos |-> 0]

EngineIdle == call = NoCall /\ ret = <<>>
SessionIdle == state = INITIAL_STATE /\ mode = "checkbook" /\ script = NoScript
HistoryFresh ==
  /\ undoRedo = [stack |-> <<INITIAL_STATE>>, currentIndex |-> 0]
  /\ feedback = <<>>
  /\ hist = NoHist
  /\ run = FreshRun
  /\ env = [pushed |-> 0, discards |-> 0]
DiskIdle ==
  [items |-> <<>>, settings |-> <<>>, balance |-> <<>>, calls |-> <<>>, clock |-> 0,
   failed |-> FALSE, read |-> <<>>]

AppIdle ==
  /\ disk = DiskIdle
  /\ app = [ref |-> 0, refs |-> <<0>>, next |-> 0, timers |-> <<>>, history |-> <<>>,
            shown |-> 0, indicator |-> <<>>]
  /\ typed = [keys |-> <<>>, before |-> INITIAL_STATE, n |-> 0]

(***************************************************************************)
(* The engine alone: one call of calculate or roundToMode.                 *)
(***************************************************************************)
\* operands of the engine calls: small values, halves of the last decimal of
\* either mode in both signs, and the ends of the displayable range
Operands ==
  { Dec(0, 0), Dec(1, 0), Dec(3, 0), Dec(10, 0), Dec(15, 1), Dec(-5, 0),
    Dec(125, 3), Dec(-125, 3), Dec(3145, 3), Dec(-3145, 3), Dec(4, 3), Dec(5, 3),
    Dec(99, 2), Dec(5, 9), Dec(999999999, 0), Dec(-999999999, 0),
    NumAdd(Dec(999999999, 0), Dec(99, 2)), NumSub(Dec(-999999999, 0), Dec(99, 2)) }

Call(fn, firstValue, operation, secondValue, m) ==
  [fn |-> fn, firstValue |-> firstValue, operation |-> operation,
   secondValue |-> secondValue, mode |-> m]

CalculateCalls ==
  { Call("calculate", a, op, b, m) :
      a \in Operands, op \in Operations \cup {null}, b \in Operands, m \in CalculatorMode }

RoundToModeCalls ==
  { Call("roundToMode", v, null, Zero, m) : v \in Operands, m \in CalculatorMode }

\* the texts given to the engine: numbers of 1 to MaxTextLen digits before
\* the point, signed or not, with or without a fraction, and the texts the
\* tests of isValidNumber and getDisplayValue use
MaxTextLen == 18

NumericTexts ==
  { sign \o [i \in 1..n |-> DigitChar(i % 10)] \o frac :
      sign \in {<<>>, <<"-">>}, n \in 1..MaxTextLen,
      frac \in {<<>>, <<".", "5">>, <<".", "2", "5">>} }

OtherTexts ==
  { <<>>, <<"a", "b", "c">>, InfinityText, <<"-">> \o InfinityText,
    <<"1", "2", ".", "3", "4", ".", "5", "6">>, <<".", "5">>, <<"-">>, <<".">>,
    <<"1", "2", "a", "b", "c">>, <<"-", ".", "5">>, <<"1", ".", ".", "5">> }

TextCall(fn, text, m, currencySymbol) ==
  [fn |-> fn, text |-> text, mode |-> m, currencySymbol |-> currencySymbol]

TextCalls ==
  { TextCall("formatForDisplay", t, m, c) :
      t \in NumericTexts, m \in CalculatorMode, c \in {"", "$"} }
  \cup { TextCall("isValidNumber", t, "checkbook", "") : t \in NumericTexts \cup OtherTexts }

InitEngine ==
  /\ call \in CalculateCalls \cup RoundToModeCalls \cup TextCalls
  /\ ret = <<>>
  /\ SessionIdle
  /\ HistoryFresh
  /\ AppIdle

Calculate ==
  /\ call.fn = "calculate"
  /\ ret = <<>>
  /\ ret' = <<calculate(call.firstValue, call.operation, call.secondValue, call.mode)>>
  /\ UNCHANGED <<call, sessionVars, historyVars, appVars>>

RoundToMode ==
  /\ call.fn = "roundToMode"
  /\ ret = <<>>
  /\ ret' = <<roundToMode(call.firstValue, call.mode)>>
  /\ UNCHANGED <<call, sessionVars, historyVars, appVars>>

FormatForDisplay ==
  /\ call.fn = "formatForDisplay"
  /\ ret = <<>>
  /\ ret' = <<formatForDisplayOfText(call.text, call.mode, call.currencySymbol)>>
  /\ UNCHANGED <<call, sessionVars, historyVars, appVars>>

IsValidNumber ==
  /\ call.fn = "isValidNumber"
  /\ ret = <<>>
  /\ ret' = <<isValidNumber(call.text)>>
  /\ UNCHANGED <<call, sessionVars, historyVars, appVars>>

NextEngine == Calculate \/ RoundToMode \/ FormatForDisplay \/ IsValidNumber

SpecEngine == InitEngine /\ [][NextEngine]_vars

(***************************************************************************)
(* The session keyed by the script digits(a), operator, digits(b), equals. *)
(***************************************************************************)
\* the digit keys used for the first and for the second operand, and the most
\* digits keyed for each
DigitsA == {"0", "1", "3"}
DigitsB == {"0", "3"}
MaxDigitsA == 4
MaxDigitsB == 3

InitScript ==
  /\ state = INITIAL_STATE
  /\ mode \in CalculatorMode
  /\ script = [phase |-> "a", a |-> <<>>, op |-> null, b |-> <<>>]
  /\ EngineIdle
  /\ HistoryFresh
  /\ AppIdle

\* a digit key, while the first or the second operand is being keyed
ScriptNumberPress ==
  \E digit \in DigitsA \cup DigitsB :
    /\ \/ script.phase = "a" /\ digit \in DigitsA /\ Len(script.a) < MaxDigitsA
          /\ script' = [script EXCEPT !.a = @ \o <<digit>>]
       \/ script.phase = "b" /\ digit \in DigitsB /\ Len(script.b) < MaxDigitsB
          /\ script' = [script EXCEPT !.b = @ \o <<digit>>]
    /\ state' = handleNumberPress(state, digit)
    /\ UNCHANGED <<mode, engineVars, historyVars, appVars>>

\* the operator key, after the digits of the first operand
ScriptOperatorPress ==
  \E newOperation \in Operations :
    /\ script.phase = "a" /\ script.a # <<>>
    /\ script' = [script EXCEPT !.phase = "b", !.op = newOperation]
    /\ state' = handleOperatorPress(state, newOperation, mode)
    /\ UNCHANGED <<mode, engineVars, historyVars, appVars>>

\* the equals key, after the digits of the second operand
ScriptEquals ==
  /\ script.phase = "b" /\ script.b # <<>>
  /\ script' = [script EXCEPT !.phase = "done"]
  /\ state' = handleEquals(state, mode)
  /\ UNCHANGED <<mode, engineVars, historyVars, appVars>>

NextScript == ScriptNumberPress \/ ScriptOperatorPress \/ ScriptEquals

SpecScript == InitScript /\ [][NextScript]_vars

(***************************************************************************)
(* The History Manager alone: pushState, undo, redo, clear, clearFeedback  *)
(* in any order.  The snapshots pushed are numbered: the k-th differs from *)
(* the initial state in its display, the text of k, and in a pending       *)
(* operation for every odd k (the tests push such snapshots).  A manager   *)
(* that has only been pushed to takes MaxPushes snapshots; once undo or    *)
(* redo has been called it takes pushes up to MaxMixedPushes in all, of    *)
(* which MaxDiscards find redo entries to discard.                         *)
(***************************************************************************)
MaxPushes == 25
MaxMixedPushes == 21
MaxDiscards == 1

Snap(k) ==
  IF k = 0 THEN INITIAL_STATE
  ELSE [INITIAL_STATE EXCEPT !.display = BText(BOfNat(k)),
                             !.operation = IF k % 2 = 1 THEN PLUS ELSE null]

InitHistory == HistoryFresh /\ EngineIdle /\ SessionIdle /\ AppIdle

PushState ==
  /\ env.pushed < (IF run.shape = "pushes" THEN MaxPushes ELSE MaxMixedPushes)
  /\ canRedo(undoRedo) => env.discards < MaxDiscards
  /\ undoRedo' = pushState(undoRedo, Snap(env.pushed + 1))
  /\ UNCHANGED feedback
  /\ hist' = [op |-> "pushState", onStateChange |-> <<>>, before |-> <<undoRedo.currentIndex, Len(undoRedo.stack)>>]
  /\ run' = IF run.shape = "pushes" THEN [run EXCEPT !.pushes = @ + 1] ELSE FreeRun
  /\ env' = [pushed |-> env.pushed + 1,
             discards |-> env.discards + (IF canRedo(undoRedo) THEN 1 ELSE 0)]
  /\ UNCHANGED <<engineVars, sessionVars, appVars>>

\* an undo or redo call: r is what its updater returned
Stepped(name, r) ==
  /\ undoRedo' = r.undoRedo
  /\ feedback' = IF r.setFeedback = <<>> THEN feedback ELSE r.setFeedback
  /\ hist' = [op |-> name, onStateChange |-> r.onStateChange, before |-> <<undoRedo.currentIndex, Len(undoRedo.stack)>>]
  /\ UNCHANGED <<env, engineVars, sessionVars, appVars>>

Undo ==
  /\ Stepped("undo", undo(undoRedo))
  /\ run' = IF run.shape \in {"pushes", "undos"} /\ canUndo(undoRedo)
            THEN [run EXCEPT !.shape = "undos", !.undos = @ + 1]
            ELSE FreeRun

Redo ==
  /\ Stepped("redo", redo(undoRedo))
  /\ run' = IF run.shape = "undos" /\ hist.op = "undo" THEN [run EXCEPT !.shape = "redo"]
            ELSE FreeRun

\* clear(INITIAL_STATE): the manager is as after construction
Clear ==
  /\ hist.op # "none"
  /\ undoRedo' = clear(INITIAL_STATE)
  /\ feedback' = <<>>
  /\ hist' = [op |-> "clear", onStateChange |-> <<>>, before |-> <<>>]
  /\ run' = FreshRun
  /\ env' = [pushed |-> 0, discards |-> 0]
  /\ UNCHANGED <<engineVars, sessionVars, appVars>>

ClearFeedback ==
  /\ feedback # <<>>
  /\ feedback' = <<>>
  /\ hist' = [op |-> "clearFeedback", onStateChange |-> <<>>, before |-> <<>>]
  /\ UNCHANGED <<undoRedo, run, env, engineVars, sessionVars, appVars>>

NextHistory == PushState \/ Undo \/ Redo \/ Clear \/ ClearFeedback

SpecHistory == InitHistory /\ [][NextHistory]_vars

(***************************************************************************)
(* The screen: any events, after one of a few first sequences of events    *)
(* (the scenarios of the tests and what they need before them).            *)
(***************************************************************************)
MaxEvents == 2

Nines == [i \in 1..9 |-> "9"]

FirstEvents ==
  { <<>>,
    <<"5">>,
    <<"5", ".">>,
    <<"5", "undo">>,
    <<"1", "0", PLUS, "5">>,
    <<"1", "0", PLUS, "5", MINUS, "3">>,
    <<"5", DIVIDE, "0">>,
    <<"5", DIVIDE, "0", "=">>,
    <<"5", DIVIDE, "0", MINUS>>,
    <<"5", PLUS, "3", "=", "tick">>,
    <<"=", "tick">>,
    Nines,
    Nines \o <<TIMES, "9">> }

\* the keys pressed after the first events
Keys == {"0", "3", "9", ".", "neg", MINUS, DIVIDE, "=", "back", "C", "AC"}

\* the screen the variables hold
Screen ==
  [state |-> state, undoRedo |-> undoRedo, feedback |-> feedback,
   ref |-> app.ref, refs |-> app.refs, next |-> app.next,
   timers |-> app.timers, history |-> app.history,
   shown |-> app.shown, indicator |-> app.indicator]

\* the variables hold the screen a after the events evs, n of them counted
Shows(a, evs, before, n) ==
  /\ state = a.state
  /\ undoRedo = a.undoRedo
  /\ feedback = a.feedback
  /\ app = [ref |-> a.ref, refs |-> a.refs, next |-> a.next,
            timers |-> a.timers, history |-> a.history,
            shown |-> a.shown, indicator |-> a.indicator]
  /\ typed = [keys |-> evs, before |-> before, n |-> n]

InitApp ==
  /\ mode \in CalculatorMode
  /\ \E evs \in FirstEvents :
       \E before \in {appAfter(SubSeq(evs, 1, Len(evs) - 1), mode)} :
         \E a \in {appAfter(evs, mode)} : Shows(a, evs, before.state, 0)
  /\ disk = DiskIdle
  /\ script = NoScript
  /\ hist = NoHist /\ run = FreshRun /\ env = [pushed |-> 0, discards |-> 0]
  /\ EngineIdle

\* the event ev, counted or not
Event(ev, counted) ==
  /\ \E a \in {appStep(Screen, ev, mode)} :
       /\ state' = a.state
       /\ undoRedo' = a.undoRedo
       /\ feedback' = a.feedback
       /\ app' = [ref |-> a.ref, refs |-> a.refs, next |-> a.next,
                  timers |-> a.timers, history |-> a.history,
                  shown |-> a.shown, indicator |-> a.indicator]
       /\ typed' = [keys |-> Append(typed.keys, ev), before |-> state, n |-> typed.n + counted]
  /\ UNCHANGED <<mode, script, hist, run, env, engineVars, disk>>

KeyPress == \E key \in Keys : typed.n < MaxEvents /\ Event(key, 1)

UndoPress == typed.n < MaxEvents /\ Event("undo", 1)

RedoPress == typed.n < MaxEvents /\ Event("redo", 1)

ErrorUndoPress == state.error /\ typed.n < MaxEvents /\ Event("errorUndo", 1)

HistoryItemSelect == app.history # <<>> /\ typed.n < MaxEvents /\ Event("select", 1)

SaveTimeout == app.timers # <<>> /\ Event("tick", 0)

ErrorModalTimeout == state.error /\ typed.n < MaxEvents /\ Event("errorTimeout", 1)

IndicatorTimeout == app.indicator # <<>> /\ typed.n < MaxEvents /\ Event("feedbackTimeout", 1)

NextApp ==
  \/ KeyPress \/ UndoPress \/ RedoPress \/ ErrorUndoPress \/ HistoryItemSelect
  \/ SaveTimeout \/ ErrorModalTimeout \/ IndicatorTimeout

SpecApp == InitApp /\ [][NextApp]_vars

(***************************************************************************)
(* The screen that saves in its equals handler (part_007, lines 44-538)    *)
(* and the storage.  The keys are =, + and 3: the updaters are those of    *)
(* the session (the guard this screen has on digits never applies to the   *)
(* numbers typed here), the effect pushes a state that has no error and    *)
(* differs in display, operation or previousValue from the state pushed    *)
(* last, which is the top of the stack as nothing is undone here.  Every   *)
(* successful equals calls saveCalculationToHistory; the calls run in any  *)
(* interleaving of their two awaited steps and of the callback of the      *)
(* screen, over a storage that may fail.  There is one read.  The clock    *)
(* advances between any two entries.                                       *)
(***************************************************************************)
MaxStorageKeys == 4
MaxSaves == 2

\* the session and the stack after a key: the updater, then the effect
keyed(p, key, m) ==
  The({ [state |-> s,
         undoRedo |-> IF /\ \/ s.display # prev.display
                            \/ s.operation # prev.operation
                            \/ s.previousValue # prev.previousValue
                         /\ ~s.error
                      THEN pushState(p.undoRedo, s) ELSE p.undoRedo] :
        s \in {press(p.state, key, m)},
        prev \in {At(p.undoRedo.stack, p.undoRedo.currentIndex)} })

RECURSIVE keyedAll(_, _)
keyedAll(evs, m) ==
  IF evs = <<>> THEN [state |-> INITIAL_STATE, undoRedo |-> clear(INITIAL_STATE)]
  ELSE keyed(keyedAll(SubSeq(evs, 1, Len(evs) - 1), m), evs[Len(evs)], m)

InitStorage ==
  /\ mode \in CalculatorMode
  /\ \E evs \in {<<"3">>, <<"1", "0", PLUS, "5">>, <<"5", DIVIDE, "0">>} :
       \E p \in {keyedAll(evs, mode)} :
         /\ state = p.state
         /\ undoRedo = p.undoRedo
         /\ typed = [keys |-> evs,
                     before |-> keyedAll(SubSeq(evs, 1, Len(evs) - 1), mode).state, n |-> 0]
  /\ feedback = <<>>
  /\ app = [ref |-> 0, refs |-> <<0>>, next |-> 0, timers |-> <<>>, history |-> <<>>,
            shown |-> 0, indicator |-> <<>>]
  /\ disk \in {DiskIdle, [DiskIdle EXCEPT !.settings = <<mode>>]}
  /\ script = NoScript
  /\ hist = NoHist /\ run = FreshRun /\ env = [pushed |-> 0, discards |-> 0]
  /\ EngineIdle

\* a key; an equals key whose calculation succeeds calls
\* saveCalculationToHistory(expression, result, displayResult) in its updater
StorageKey ==
  \E key \in {"=", PLUS, "3"} :
    /\ typed.n < MaxStorageKeys
    /\ \E p \in {keyed([state |-> state, undoRedo |-> undoRedo], key, mode)} :
         /\ state' = p.state
         /\ undoRedo' = p.undoRedo
         /\ IF key = "=" /\ ~bailsOut(state, key) /\ ~p.state.error
            THEN /\ Len(disk.calls) < MaxSaves
                 /\ disk' = [disk EXCEPT !.calls = Append(@,
                      [pc |-> "read",
                       args |-> [expression |-> formatExpression(
                                                  state.previousValue[1], state.operation,
                                                  <<getDisplayValue(state.display)>>,
                                                  CURRENCY_SYMBOL),
                                 result |-> p.state.previousValue[1],
                                 displayResult |-> p.state.display],
                       history |-> <<>>, ret |-> <<>>])]
            ELSE disk' = disk
    /\ typed' = [keys |-> Append(typed.keys, key), before |-> state, n |-> typed.n + 1]
    /\ UNCHANGED <<app, feedback, mode, script, hist, run, env, engineVars>>

\* const history = await getHistory(); newEntry; history.unshift(newEntry)
SaveReads ==
  \E i \in DOMAIN disk.calls, fails \in BOOLEAN :
    /\ disk.calls[i].pc = "read"
    /\ disk' = [disk EXCEPT
         !.calls[i] = [@ EXCEPT !.pc = "write",
                                !.history = <<[id |-> disk.clock + 1,
                                               timestamp |-> disk.clock + 1,
                                               expression |-> disk.calls[i].args.expression,
                                               result |-> disk.calls[i].args.result,
                                               displayResult |-> disk.calls[i].args.displayResult]>>
                                            \o getHistory(disk, fails)],
         !.clock = @ + 1, !.failed = @ \/ fails]
    /\ UNCHANGED <<app, typed, sessionVars, historyVars, engineVars>>

\* await AsyncStorage.setItem(HISTORY, JSON.stringify(history))
SaveWrites ==
  \E i \in DOMAIN disk.calls, fails \in BOOLEAN :
    /\ disk.calls[i].pc = "write"
    /\ disk' = [disk EXCEPT !.calls[i] = historyWritten(@, fails),
                            !.items = IF fails THEN @ ELSE disk.calls[i].history,
                            !.failed = @ \/ fails]
    /\ UNCHANGED <<app, typed, sessionVars, historyVars, engineVars>>

\* then((newItem) => ...): the entry is put in front of the history of the
\* screen and, in checkbook mode, saveLastBalance(result) is called
SaveResolves ==
  \E i \in DOMAIN disk.calls, fails \in BOOLEAN :
    /\ disk.calls[i].pc = "then"
    /\ app' = [app EXCEPT !.history = disk.calls[i].ret \o @]
    /\ disk' = [disk EXCEPT !.calls[i].pc = "done",
                            !.balance = IF disk.calls[i].ret # <<>> /\ mode = "checkbook" /\ ~fails
                                        THEN <<NumberToString(disk.calls[i].ret[1].result)>>
                                        ELSE @,
                            !.failed = @ \/ fails]
    /\ UNCHANGED <<typed, sessionVars, historyVars, engineVars>>

\* one call of getHistory, loadSettings or getLastBalance
StorageRead ==
  \E fn \in {"getHistory", "loadSettings", "getLastBalance"}, fails \in BOOLEAN :
    /\ disk.read = <<>>
    /\ disk' = [disk EXCEPT !.read =
                  <<[fn |-> fn, fails |-> fails,
                     value |-> CASE fn = "getHistory"     -> getHistory(disk, fails)
                                 [] fn = "loadSettings"   -> loadSettings(disk, fails)
                                 [] fn = "getLastBalance" -> getLastBalance(disk, fails)]>>,
                            !.failed = @ \/ fails]
    /\ UNCHANGED <<app, typed, sessionVars, historyVars, engineVars>>

NextStorage == StorageKey \/ SaveReads \/ SaveWrites \/ SaveResolves \/ StorageRead

SpecStorage == InitStorage /\ [][NextStorage]_vars

(***************************************************************************)
(* The engine's claims.                                                    *)
(***************************************************************************)
Returned(fn) == call.fn = fn /\ ret # <<>>

\* the exact value of first <operation> second
ExactResult(c) ==
  CASE c.operation = PLUS   -> NumAdd(c.firstValue, c.secondValue)
    [] c.operation = MINUS  -> NumSub(c.firstValue, c.secondValue)
    [] c.operation = TIMES  -> NumMul(c.firstValue, c.secondValue)
    [] c.operation = DIVIDE -> NumDiv(c.firstValue, c.secondValue)

HasExactResult(c) ==
  c.operation \in Operations /\ ~(c.operation = DIVIDE /\ IsZero(c.secondValue))

\* v at the given number of decimals, an exact half going away from zero
RoundHalfAwayFromZero(v, decimals) ==
  LET scaled == [neg |-> FALSE, num |-> BTimesPow10(v.num, decimals), den |-> v.den]
      n      == BDiv(BAdd(BMulSmall(scaled.num, 2), scaled.den), BMulSmall(scaled.den, 2))
  IN  Canon([neg |-> v.neg, num |-> n, den |-> BPow10(decimals)])

MessageParts ==
  { "", "Cannot ",
    ". This would create an infinite number. Press C to start fresh or (undo) to undo.",
    "This number is ",
    " to display. The maximum is 999,999,999.99. Press C to start over." }

\* msg contains part
Contains(msg, part) == \E pre \in MessageParts, post \in MessageParts : msg = pre \o part \o post

\* C2: a call of calculate whose exact result, rounded to the mode's decimals,
\* lies within +-999,999,999.99 returns error = false, errorMessage = "" and
\* that rounded value (halves away from zero, the rounding of the mode)
C2_ResultIsRoundedExact ==
  (Returned("calculate") /\ HasExactResult(call)) =>
    LET expected == RoundHalfAwayFromZero(ExactResult(call), DecimalPlaces(call.mode))
    IN  NumCmp(NumAbs(expected), MAX_VALUE) <= 0 =>
          ret[1] = [result |-> expected, error |-> FALSE, errorMessage |-> ""]

\* C3: dividing by zero returns error = true, result = 0 and a message that
\* contains "divide by zero", whatever the first operand and the mode
C3_DivideByZero ==
  (Returned("calculate") /\ call.operation = DIVIDE /\ IsZero(call.secondValue)) =>
    /\ ret[1].error = TRUE
    /\ ret[1].result = Zero
    /\ Contains(ret[1].errorMessage, "divide by zero")

C3_Witness ==
  /\ Returned("calculate") /\ call.operation = DIVIDE /\ IsZero(call.secondValue)
  /\ call.firstValue = Dec(-5, 0) /\ call.mode = "scientific"
  /\ ret[1].error

TooLarge(r) == r.error /\ Contains(r.errorMessage, "too large")

\* C4: calculate fails with the "too large" error, result 0, exactly when the
\* magnitude of the result rounded to the mode exceeds 999,999,999.99; the
\* bound is applied to the rounded value; a success is never beyond the bound
C4_TooLargeAfterRounding ==
  Returned("calculate") =>
    /\ TooLarge(ret[1]) <=>
         /\ HasExactResult(call)
         /\ NumCmp(NumAbs(roundToMode(ExactResult(call), call.mode)), MAX_VALUE) > 0
    /\ TooLarge(ret[1]) => ret[1].result = Zero
    /\ ~ret[1].error => NumCmp(NumAbs(ret[1].result), MAX_VALUE) <= 0
    /\ call = Call("calculate", Dec(999999999, 0), PLUS, Dec(99, 2), "checkbook")
         => ret[1] = [result |-> MAX_VALUE, error |-> FALSE, errorMessage |-> ""]
    /\ call = Call("calculate", Dec(999999999, 0), PLUS, Dec(1, 0), "checkbook")
         => TooLarge(ret[1])
    /\ call = Call("calculate", Dec(-999999999, 0), MINUS, Dec(1, 0), "checkbook")
         => TooLarge(ret[1])

\* the raw sum 999,999,999.994 is beyond the bound, the rounded one is not
C4_Witness ==
  /\ Returned("calculate")
  /\ call = Call("calculate", MAX_VALUE, PLUS, Dec(4, 3), "checkbook")
  /\ ret[1] = [result |-> MAX_VALUE, error |-> FALSE, errorMessage |-> ""]

\* C5: roundToMode returns the value at the mode's decimals with an exact
\* half going away from zero, for negative as for positive values
C5_HalfAwayFromZero ==
  Returned("roundToMode") =>
    ret[1] = RoundHalfAwayFromZero(call.firstValue, DecimalPlaces(call.mode))

(***************************************************************************)
(* The session's claims.                                                   *)
(***************************************************************************)
\* the operands the script keyed, and what calculate returns for them
ScriptA == NumOfBig(FALSE, BOfText(script.a))
ScriptB == NumOfBig(FALSE, BOfText(script.b))
ScriptResult == calculate(ScriptA, script.op, ScriptB, mode)

\* the script has run to its end on operands that calculate accepts
ScriptDone == script.phase = "done" /\ ~ScriptResult.error

\* C1 as stated: after digits(a), operator, digits(b), equals with an in-range
\* result the display shows the result with exactly 2 (Checkbook) or exactly 8
\* (Scientific) decimals, error = false, previousValue = the result,
\* operation = none, waitingForOperand = true
C1_DisplayHasModeDecimals ==
  ScriptDone =>
    /\ state.error = FALSE
    /\ state.display = ToFixed(ScriptResult.result, DecimalPlaces(mode))
    /\ state.previousValue = <<ScriptResult.result>>
    /\ state.operation = null
    /\ state.waitingForOperand = TRUE

\* C1 amended: the display is that text when it has at most 15 characters, and
\* otherwise its first 15 characters followed by an ellipsis; the rest as stated
C1_DisplayIsFormattedResult ==
  ScriptDone =>
    LET fixed == ToFixed(ScriptResult.result, DecimalPlaces(mode))
    IN  /\ state.error = FALSE
        /\ state.display = IF Len(fixed) <= 15 THEN fixed
                           ELSE SubSeq(fixed, 1, 15) \o <<ELLIPSIS>>
        /\ state.previousValue = <<ScriptResult.result>>
        /\ state.operation = null
        /\ state.waitingForOperand = TRUE
        /\ (script.a = <<"1", "0">> /\ script.op = DIVIDE /\ script.b = <<"3">>) =>
             state.display = IF mode = "checkbook" THEN <<"3", ".", "3", "3">>
                             ELSE <<"3", ".", "3", "3", "3", "3", "3", "3", "3", "3">>

\* 3333 * 333 = 1109889 in Scientific mode: sixteen characters, cut to fifteen
C1_Witness ==
  /\ ScriptDone /\ mode = "scientific"
  /\ script.a = <<"3", "3", "3", "3">> /\ script.op = TIMES /\ script.b = <<"3", "3", "3">>
  /\ state.display = <<"1", "1", "0", "9", "8", "8", "9", ".", "0", "0", "0", "0", "0", "0", "0", ELLIPSIS>>
  /\ state.previousValue = <<Dec(1109889, 0)>>

(***************************************************************************)
(* The History Manager's claims.                                           *)
(***************************************************************************)
\* the snapshots of a stack between two indices (counted from 0)
Between(stack, from, to) == { At(stack, i) : i \in from..to }

\* this step is a call of pushState, undo, redo
PushStep == hist'.op = "pushState"
UndoStep == hist'.op = "undo"
RedoStep == hist'.op = "redo"

\* after this push of a new snapshot there is nothing to redo and something to
\* undo, and none of the redo entries is left in the stack
RedoDiscarded ==
  /\ ~canRedo(undoRedo') /\ canUndo(undoRedo')
  /\ Between(undoRedo.stack, undoRedo.currentIndex + 1, Len(undoRedo.stack) - 1)
       \cap Between(undoRedo'.stack, 0, Len(undoRedo'.stack) - 1) = {}

\* C6 as stated: right after pushState canRedo() is false and canUndo() is
\* true, the snapshots beyond the old currentIndex are gone, and every
\* snapshot at or before the old currentIndex can still be reached by undo
C6_PushKeepsAllUndoEntries ==
  [][PushStep =>
       /\ RedoDiscarded
       /\ Between(undoRedo.stack, 0, undoRedo.currentIndex)
            \subseteq Between(undoRedo'.stack, 0, undoRedo'.currentIndex - 1)]_vars

\* C6 amended: the snapshots at or before the old currentIndex stay below the
\* new one, in their order, except that a push onto a stack that holds 20
\* snapshots with currentIndex 19 drops the oldest of them
C6_PushKeepsUndoEntriesButOldest ==
  [][PushStep =>
       LET old     == undoRedo
           new     == undoRedo'
           dropped == IF Len(old.stack) = UNDO_REDO_STACK_SIZE
                         /\ old.currentIndex = UNDO_REDO_STACK_SIZE - 1 THEN 1 ELSE 0
       IN  /\ RedoDiscarded
           /\ new.currentIndex = old.currentIndex + 1 - dropped
           /\ \A i \in dropped..old.currentIndex :
                At(new.stack, i - dropped) = At(old.stack, i)
           /\ dropped = 1 =>
                At(old.stack, 0) \notin Between(new.stack, 0, Len(new.stack) - 1)]_vars

\* a push has discarded three redo entries
C6_Witness ==
  /\ hist.op = "pushState"
  /\ hist.before[2] - 1 - hist.before[1] = 3
  /\ Len(undoRedo.stack) = hist.before[1] + 2
  /\ ~canRedo(undoRedo) /\ canUndo(undoRedo)

\* C7: the stack never holds more than 20 snapshots, and a run of successive
\* successful undos on a manager that has only been pushed to is never longer
\* than 20, however many snapshots were pushed
C7_StackBounded ==
  /\ Len(undoRedo.stack) <= UNDO_REDO_STACK_SIZE
  /\ undoRedo.currentIndex \in 0..(Len(undoRedo.stack) - 1)
  /\ run.shape = "undos" => run.undos <= 20

\* 25 pushes onto a fresh manager, then undos until canUndo() is false
C7_Witness ==
  /\ run.shape = "undos" /\ run.pushes = 25
  /\ hist.op = "undo" /\ ~canUndo(undoRedo)
  /\ run.undos = 19
  /\ Len(undoRedo.stack) = UNDO_REDO_STACK_SIZE

\* C8: after n < 20 pushes s1..sn onto a manager seeded with s0, the k-th of
\* k successive undos hands s(n-k) to its callback, once, and canUndo() is
\* false exactly when s0 has been handed over
C8_UndoDeliversInOrder ==
  (run.shape = "undos" /\ hist.op = "undo" /\ run.pushes < 20) =>
    /\ run.undos <= run.pushes
    /\ hist.onStateChange = <<Snap(run.pushes - run.undos)>>
    /\ ~canUndo(undoRedo) <=> hist.onStateChange = <<Snap(0)>>

\* 19 pushes, 19 undos: the last one hands over the seed
C8_Witness ==
  /\ run.shape = "undos" /\ hist.op = "undo"
  /\ run.pushes = 19 /\ run.undos = 19
  /\ hist.onStateChange = <<INITIAL_STATE>>
  /\ ~canUndo(undoRedo)

\* the last call was an undo, a redo, that moved the index
Undone == hist.op = "undo" /\ hist.onStateChange # <<>>
Redone == hist.op = "redo" /\ hist.onStateChange # <<>>

\* C9: an undo leaves the stack as it is; a redo that directly follows a
\* successful undo leaves it as it is too, puts currentIndex back where it
\* was before the undo and hands the snapshot that was current then to its
\* callback; likewise for an undo that directly follows a successful redo
C9_UndoRedoRoundTrip ==
  [][/\ (UndoStep \/ RedoStep) => undoRedo'.stack = undoRedo.stack
     /\ (Undone /\ RedoStep) =>
          /\ undoRedo'.currentIndex = hist.before[1]
          /\ hist'.onStateChange = <<At(undoRedo.stack, hist.before[1])>>
     /\ (Redone /\ UndoStep) =>
          /\ undoRedo'.currentIndex = hist.before[1]
          /\ hist'.onStateChange = <<At(undoRedo.stack, hist.before[1])>>]_vars

\* three pushes, an undo and at once a redo: back on the third snapshot
C9_Witness ==
  /\ run.shape = "redo" /\ run.pushes = 3 /\ run.undos = 1
  /\ Redone
  /\ undoRedo.currentIndex = 3
  /\ hist.onStateChange = <<Snap(3)>>

\* C10: an undo at currentIndex <= 0 and a redo at currentIndex >=
\* stack.length - 1 do not invoke the callback and leave stack, currentIndex
\* and feedback as they are
C10_NoOpAtTheEnds ==
  [][/\ (UndoStep /\ undoRedo.currentIndex <= 0) =>
          /\ hist'.onStateChange = <<>>
          /\ UNCHANGED <<undoRedo, feedback>>
     /\ (RedoStep /\ undoRedo.currentIndex >= Len(undoRedo.stack) - 1) =>
          /\ hist'.onStateChange = <<>>
          /\ UNCHANGED <<undoRedo, feedback>>]_vars

\* an undo at index 0 while a feedback of an earlier undo is shown
C10_Witness ==
  /\ hist.op = "undo" /\ hist.before[1] = 0
  /\ hist.onStateChange = <<>>
  /\ undoRedo.currentIndex = 0
  /\ feedback # <<>>

(***************************************************************************)
(* The session on the screen (C11..C20), under SpecApp.                    *)
(***************************************************************************)
\* the last event was ev
Pressed(ev) == typed.keys # <<>> /\ typed.keys[Len(typed.keys)] = ev

\* s holds a first operand, a pending operation and a typed second operand
Chaining(s) ==
  ~s.error /\ s.previousValue # <<>> /\ s.operation # null /\ ~s.waitingForOperand

\* C11: an operator key pressed while a first operand, a pending operation and
\* a typed second operand are held evaluates calculate(previousValue,
\* operation, displayValue, mode) first: when that succeeds its result becomes
\* previousValue and, formatted, the display, the new operator is pending and
\* waitingForOperand is set; so 10 + 5 op2 d = shows
\* calculate(calculate(10, +, 5), op2, d), 12.00 for - 3 in checkbook mode
C11_OperatorFoldsLeft ==
  /\ \A op \in Operations :
       (Pressed(op) /\ Chaining(typed.before)) =>
         \E r \in {calculate(typed.before.previousValue[1], typed.before.operation,
                             getDisplayValue(typed.before.display), mode)} :
           ~r.error =>
             /\ state.previousValue = <<r.result>>
             /\ state.display = formatForDisplay(r.result, mode)
             /\ state.operation = op
             /\ state.waitingForOperand
             /\ ~state.error
  /\ \A op2 \in Operations : \A d \in {"0", "3", "9"} :
       typed.keys = <<"1", "0", PLUS, "5", op2, d, "=">> =>
         \E ab \in {calculate(Dec(10, 0), PLUS, Dec(5, 0), mode)} :
           \E abc \in {calculate(ab.result, op2, Dec(DigitVal(d), 0), mode)} :
             IF abc.error THEN state.error /\ state.errorMessage = abc.errorMessage
             ELSE /\ state.display = formatForDisplay(abc.result, mode)
                  /\ state.previousValue = <<abc.result>>
                  /\ ~state.error
  /\ (typed.keys = <<"1", "0", PLUS, "5", MINUS, "3", "=">> /\ mode = "checkbook") =>
       state.display = <<"1", "2", ".", "0", "0">>

\* 10 + 5 - 3 = in checkbook mode: 15.00 was shown at the minus key, 12.00 now
C11_Witness ==
  /\ typed.keys = <<"1", "0", PLUS, "5", MINUS, "3", "=">>
  /\ mode = "checkbook"
  /\ typed.before.previousValue = <<Dec(15, 0)>>
  /\ state.display = <<"1", "2", ".", "0", "0">>

\* the last event was the equals key or an operator key, and the calculation
\* it ran on the state before it failed
EngineErrorAt(s) ==
  /\ Pressed("=") \/ \E op \in Operations : Pressed(op)
  /\ ~s.error /\ s.previousValue # <<>> /\ s.operation # null
  /\ Pressed("=") \/ ~s.waitingForOperand
  /\ calculate(s.previousValue[1], s.operation, getDisplayValue(s.display), mode).error

\* C12: every key whose calculation fails (the equals key, or an operator key
\* that completes a pending operation) leaves error = true, errorMessage = the
\* message calculate returned, display = "0", expression = "" and
\* waitingForOperand = true
C12_EngineErrorState ==
  EngineErrorAt(typed.before) =>
    /\ state.error
    /\ state.errorMessage =
         calculate(typed.before.previousValue[1], typed.before.operation,
                   getDisplayValue(typed.before.display), mode).errorMessage
    /\ state.display = <<"0">>
    /\ state.expression = <<>>
    /\ state.waitingForOperand

\* C13: whatever keys were pressed and whatever undo and redo restored, a
\* session state with error = true shows exactly "0"
C13_ErrorShowsZero == state.error => state.display = <<"0">>

\* 5 / 0 = fails, the digit 3 starts afresh, undo restores the error state
C13_Witness ==
  /\ typed.keys = <<"5", DIVIDE, "0", "=", "3", "undo">>
  /\ state.error
  /\ state.display = <<"0">>
  /\ ~typed.before.error

\* C14: a digit key d pressed in an Error state gives the initial state with
\* display = d (so waitingForOperand = false, no error, nothing pending); the
\* decimal key gives the initial state with display = "0."
C14_ErrorRecovery ==
  typed.before.error =>
    /\ \A d \in {"0", "3", "9"} :
         Pressed(d) => state = [INITIAL_STATE EXCEPT !.display = <<d>>]
    /\ Pressed(".") => state = [INITIAL_STATE EXCEPT !.display = <<"0", ".">>]

\* 5 / 0 followed by an operator key fails with the first operand and the
\* operation still held; the digit 3 then starts afresh
C14_Witness ==
  /\ typed.keys = <<"5", DIVIDE, "0", MINUS, "3">>
  /\ typed.before.error /\ typed.before.previousValue # <<>>
  /\ state = [INITIAL_STATE EXCEPT !.display = <<"3">>]

\* the display a digit key d would give from the display text
Candidate(text, d) == IF text = <<"0">> THEN <<d>> ELSE text \o <<d>>

\* the text denotes a magnitude above 999,999,999.99
BeyondMax(text) == NumCmp(NumAbs(getDisplayValue(text)), MAX_VALUE) > 0

\* C15: outside Error and AwaitingNewOperand a digit key whose candidate
\* display denotes a magnitude above 999,999,999.99 leaves the state as it
\* was, so that no display typed with digit and decimal keys exceeds it
C15_DigitBeyondMaxRejected ==
  /\ \A d \in {"0", "3", "9"} :
       ( /\ Pressed(d)
         /\ ~typed.before.error /\ ~typed.before.waitingForOperand
         /\ BeyondMax(Candidate(typed.before.display, d)) ) => state = typed.before
  /\ (\A i \in 1..Len(typed.keys) : typed.keys[i] = "." \/ IsDigit(typed.keys[i]))
       => ~BeyondMax(state.display)

\* C16: the Clear key sets display = "0", waitingForOperand = true, error =
\* false and errorMessage = "", and leaves previousValue, operation and
\* expression as they were, from every state
C16_SoftClear ==
  Pressed("C") =>
    state = [typed.before EXCEPT !.display = <<"0">>, !.waitingForOperand = TRUE,
                                 !.error = FALSE, !.errorMessage = ""]

\* 10 + 5, Clear: the first operand and the pending addition are still held
C16_Witness ==
  /\ typed.keys = <<"1", "0", PLUS, "5", "C">>
  /\ typed.before.display = <<"5">> /\ ~typed.before.waitingForOperand
  /\ state.display = <<"0">> /\ state.waitingForOperand
  /\ state.previousValue = <<Dec(10, 0)>> /\ state.operation = PLUS
  /\ state.expression = <<"1", "0", " ", PLUS>>

\* the fields the push filter compares
Compared(s) == <<s.display, s.operation, s.previousValue>>

\* C17: the screen pushes a session state only when its error is false and
\* its display, operation or previousValue differs from the state pushed
\* last: no snapshot of the stack has error = true, and no two snapshots
\* pushed one after the other (the stack beyond its seed) agree on the three
\* fields
C17_PushesAreFiltered ==
  /\ \A i \in 1..Len(undoRedo.stack) : ~undoRedo.stack[i].error
  /\ \A i \in 2..(Len(undoRedo.stack) - 1) :
       Compared(undoRedo.stack[i]) # Compared(undoRedo.stack[i + 1])

\* the equals key pressed in the session state s performs a calculation, and
\* the calculation succeeds
EqualsSucceeds(s) ==
  /\ ~s.error /\ s.operation # null /\ s.previousValue # <<>>
  /\ ~calculate(s.previousValue[1], s.operation, getDisplayValue(s.display), mode).error

\* C18: a History Entry is recorded exactly when an equals press succeeds:
\* when the work the equals key left behind has run, the history has one new
\* entry, with formatExpression(previousValue, operation, displayValue,
\* currencySymbol) and the computed result, if the key was pressed in a state
\* where the calculation succeeds, and is unchanged otherwise (Error state,
\* no pending operation, no previousValue, or an engine error)
C18_EntryExactlyOnSuccessfulEquals ==
  [][(app.timers # <<>> /\ app'.timers = Tail(app.timers)) =>
       \E s \in {Head(app.timers)} :
         IF EqualsSucceeds(s)
         THEN /\ Len(app'.history) = Len(app.history) + 1
              /\ Tail(app'.history) = app.history
              /\ app'.history[1].expression =
                   formatExpression(s.previousValue[1], s.operation,
                                    <<getDisplayValue(s.display)>>, CURRENCY_SYMBOL)
              /\ app'.history[1].result =
                   calculate(s.previousValue[1], s.operation,
                             getDisplayValue(s.display), mode).result
         ELSE app'.history = app.history]_vars

\* the last two events were sign toggles
ToggledTwice ==
  Len(typed.keys) >= 2 /\ typed.keys[Len(typed.keys) - 1] = "neg" /\ Pressed("neg")

\* the session state before the last two events
TwoBack == appAfter(SubSeq(typed.keys, 1, Len(typed.keys) - 2), mode).state

\* the text Number.prototype.toString gives the value a display denotes
CanonicalText(text) == NumberToString(getDisplayValue(text))

\* a sign toggle outside Error changes no field but display and never shows
\* "-0"
ToggleChangesDisplayOnly ==
  (Pressed("neg") /\ ~typed.before.error) =>
    /\ state = [typed.before EXCEPT !.display = state.display]
    /\ state.display # <<"-", "0">>

\* C19 as stated: outside Error two successive sign toggles restore the
\* session state exactly, display text included; one toggle changes no field
\* but display and never shows "-0"
C19_DoubleToggleRestores ==
  /\ ToggledTwice => \A s \in {TwoBack} : ~s.error => state = s
  /\ ToggleChangesDisplayOnly

\* C19: outside Error two successive sign toggles restore every field of the
\* session state but the display text, which becomes the canonical decimal
\* text of the value it denoted (5. gives 5, 12.00 gives 12), and so is
\* restored too when it was that text already (5 -> -5 -> 5); one toggle
\* changes no field but display and never shows "-0"
C19_DoubleToggleCanonical ==
  /\ ToggledTwice =>
       \A s \in {TwoBack} :
         ~s.error =>
           /\ state = [s EXCEPT !.display = CanonicalText(s.display)]
           /\ s.display = CanonicalText(s.display) => state = s
  /\ ToggleChangesDisplayOnly

\* 5 -> -5 -> 5
C19_Witness ==
  /\ typed.keys = <<"5", "neg", "neg">>
  /\ typed.before.display = <<"-", "5">>
  /\ state = [INITIAL_STATE EXCEPT !.display = <<"5">>]

\* C20: the display of every session state, the snapshots of the stack
\* included, is a non-empty text; a backspace that takes the last character
\* away leaves display = "0", and a backspace while waitingForOperand leaves
\* the state as it was
C20_DisplayNeverEmpty ==
  /\ state.display # <<>>
  /\ \A i \in 1..Len(undoRedo.stack) : undoRedo.stack[i].display # <<>>
  /\ Pressed("back") =>
       /\ typed.before.waitingForOperand => state = typed.before
       /\ (~typed.before.error /\ ~typed.before.waitingForOperand
             /\ Len(typed.before.display) = 1)
            => state = [typed.before EXCEPT !.display = <<"0">>]

\* 5, backspace: the display is "0"
C20_Witness ==
  /\ typed.keys = <<"5", "back">>
  /\ typed.before.display = <<"5">>
  /\ state.display = <<"0">>

(***************************************************************************)
(* The feedback of an undo.                                                *)
(***************************************************************************)
\* msg names the operation
Describes(msg, operation) ==
  \E pre \in {"", UNDO_SIGN \o " Undid last operation: "} :
    msg = pre \o operationText(operation)

\* C21: after a successful undo the feedback has isUndo = true and a message
\* that describes the operation being undone, the pending operation of the
\* snapshot the manager was positioned on before the undo: "added" for +,
\* "subtracted" for -, "multiplied by" for *, "divided by" for /; a pushed
\* state whose operation is +, undone, gives a message containing "added"
C21_UndoFeedbackNamesUndone ==
  Undone =>
    /\ feedback # <<>>
    /\ feedback[1].isUndo
    /\ \A left \in {At(undoRedo.stack, hist.before[1])} :
         left.operation # null => Describes(feedback[1].message, left.operation)

(***************************************************************************)
(* The engine's texts.                                                     *)
(***************************************************************************)
\* the text a call of formatForDisplay returns before the currency symbol is
\* put in front of it
Unprefixed(c, text) ==
  IF c.currencySymbol # "" /\ c.mode = "checkbook" THEN Tail(text) ELSE text

\* text is the first 15 characters of the argument and one ellipsis when the
\* argument has more than 15 characters, and the argument otherwise
TruncatedAt15(c, text) ==
  IF Len(c.text) > 15
  THEN /\ Len(text) <= 16
       /\ text = SubSeq(c.text, 1, 15) \o <<ELLIPSIS>>
  ELSE text = c.text

\* C22 as stated: formatForDisplay of a numeric text of more than 15
\* characters returns a text of at most 16 characters, the first 15 of the
\* argument and one ellipsis; a text of 15 characters or fewer is returned
\* as it is
C22_TextTruncated ==
  Returned("formatForDisplay") => TruncatedAt15(call, ret[1])

\* C22 amended: that holds when no currency symbol is put in front (an empty
\* symbol, or scientific mode); with a currency symbol in checkbook mode the
\* text returned is the symbol followed by that text
C22_TextTruncatedBeforeSymbol ==
  Returned("formatForDisplay") =>
    /\ TruncatedAt15(call, Unprefixed(call, ret[1]))
    /\ (call.currencySymbol # "" /\ call.mode = "checkbook") =>
         Head(ret[1]) = call.currencySymbol

\* the text of the test, 18 digits, without symbol: 15 digits and an ellipsis
C22_Witness ==
  /\ Returned("formatForDisplay")
  /\ call.text = [i \in 1..18 |-> DigitChar(i % 10)]
  /\ call.currencySymbol = ""
  /\ Len(ret[1]) = 16
  /\ ret[1][16] = ELLIPSIS

\* the whole text is [-] digits [. digits] with at least one digit
DenotesFiniteNumber(text) ==
  \E start \in {IF text # <<>> /\ text[1] = "-" THEN 2 ELSE 1} :
    /\ \A i \in start..Len(text) : IsDigit(text[i]) \/ text[i] = "."
    /\ \E i \in start..Len(text) : IsDigit(text[i])
    /\ Cardinality({ i \in start..Len(text) : text[i] = "." }) <= 1

\* C23: isValidNumber(str) is true exactly when the whole text denotes a
\* finite number: false for the empty text, for text that is no number, for
\* "Infinity" and "-Infinity" and for text with more than one decimal point
\* such as "12.34.56"
C23_ValidIffWholeTextIsNumber ==
  Returned("isValidNumber") => (ret[1] <=> DenotesFiniteNumber(call.text))

(***************************************************************************)
(* Undo and redo on the screen (C24..C26), under SpecApp.                  *)
(***************************************************************************)
\* the last n events were evs
Ended(evs) ==
  /\ Len(typed.keys) >= Len(evs)
  /\ SubSeq(typed.keys, Len(typed.keys) - Len(evs) + 1, Len(typed.keys)) = evs

\* the screen before the last n events
Back(n) == appAfter(SubSeq(typed.keys, 1, Len(typed.keys) - n), mode)

\* C24: after an undo gesture that restored an earlier snapshot canRedo() is
\* true, and a redo gesture that follows at once gives the session the state
\* it had before the undo
C24_RedoAfterUndo ==
  /\ (Pressed("undo") /\ state # typed.before) => canRedo(undoRedo)
  /\ (Ended(<<"undo", "redo">>) /\ typed.before # Back(2).state) => state = Back(2).state

\* the keys are k keys that each changed display, operation or previousValue
\* without error, pressed on the screen as mounted, and then k undo gestures
UndoneAll(k) ==
  /\ Len(typed.keys) = 2 * k
  /\ \A i \in 1..k :
       /\ IsDigit(typed.keys[i]) \/ typed.keys[i] \in Keys \cup Operations
       /\ typed.keys[k + i] = "undo"
       /\ \E was \in {appAfter(SubSeq(typed.keys, 1, i - 1), mode).state},
             now \in {appAfter(SubSeq(typed.keys, 1, i), mode).state} :
            /\ ~now.error
            /\ \/ now.display # was.display
               \/ now.operation # was.operation
               \/ now.previousValue # was.previousValue

\* C25: after k <= 19 undo-worthy transitions from the initial state, k undo
\* gestures in a row give the initial state back, each of them restoring the
\* snapshot recorded just before the current one; restoring a snapshot adds
\* no snapshot to the stack
C25_UndoAllTheWay ==
  /\ \A k \in 1..19 : UndoneAll(k) => state = INITIAL_STATE
  /\ Pressed("undo") => undoRedo.stack = Back(1).undoRedo.stack

\* the last two events were an equals key that failed and the undo button
\* of the error modal
EqualsFailedThenErrorUndo ==
  /\ Ended(<<"=", "errorUndo">>)
  /\ typed.before.error
  /\ ~Back(2).state.error

C27_TimeoutsKeepSession ==
  (Pressed("errorTimeout") \/ Pressed("feedbackTimeout")) => state = typed.before

\* C28: the auto-dismiss timer armed when a feedback message is shown never
\* clears a newer one: a feedback is cleared by a timeout only when the
\* timer was armed while that feedback was the one shown
C28_TimerClearsItsOwnFeedback ==
  [][(/\ typed'.keys = Append(typed.keys, "feedbackTimeout")
      /\ feedback # <<>> /\ feedback' = <<>>) =>
       app.indicator = <<app.shown>>]_vars

(***************************************************************************)
(* The storage (C29, C30), under SpecStorage.                              *)
(***************************************************************************)
\* C29: in a run where the storage never fails, whatever the interleaving of
\* the saveCalculationToHistory calls, the entry returned by a call is in the
\* persisted history from then on, and the persisted history is ordered
\* newest first
C29_ReturnedEntriesPersist ==
  ~disk.failed =>
    /\ \A i \in DOMAIN disk.calls :
         disk.calls[i].ret # <<>> =>
           \E k \in DOMAIN disk.items : disk.items[k] = disk.calls[i].ret[1]
    /\ \A k \in 1..(Len(disk.items) - 1) :
         disk.items[k].timestamp >= disk.items[k + 1].timestamp

\* the equals key before the last event was pressed with a calculation that
\* succeeds
SavedEquals == Pressed("=") /\ EqualsSucceeds(typed.before)

\* C30: after an equals key whose calculation succeeds the session is
\* handleEquals of the state before and is the top of the undo stack, in
\* every state that follows until the next key, whether the save is pending,
\* has succeeded or has failed; a step of the storage changes neither the
\* session nor the undo stack; saveCalculationToHistory resolves to null
\* exactly when its write has not taken place; a read that fails returns the
\* empty list, the default settings or zero
C30_SaveOutcomeLeavesSession ==
  /\ [](/\ SavedEquals =>
             /\ state = handleEquals(typed.before, mode)
             /\ At(undoRedo.stack, undoRedo.currentIndex) = state
        /\ (disk.read # <<>> /\ disk.read[1].fails) =>
             disk.read[1].value = CASE disk.read[1].fn = "getHistory"     -> <<>>
                                    [] disk.read[1].fn = "loadSettings"   -> getDefaultSettings
                                    [] disk.read[1].fn = "getLastBalance" -> Zero)
  /\ [][/\ typed' = typed => (state' = state /\ undoRedo' = undoRedo)
        /\ \A i \in DOMAIN disk.calls :
             (disk.calls[i].pc = "write" /\ disk'.calls[i].pc = "then") =>
               (disk'.calls[i].ret = <<>> <=> disk'.items = disk.items)]_vars

\* 10 + 5 =: the save has failed and resolved to null, the screen has
\* no entry, the session shows 15.00
C30_Witness ==
  /\ typed.keys = <<"1", "0", PLUS, "5", "=">>
  /\ mode = "checkbook"
  /\ disk.failed
  /\ Len(disk.calls) = 1 /\ disk.calls[1].pc = "done" /\ disk.calls[1].ret = <<>>
  /\ disk.items = <<>> /\ app.history = <<>>
  /\ state.display = <<"1", "5", ".", "0", "0">>
  /\ disk.read # <<>> /\ disk.read[1].fails

(***************************************************************************)
(* The Error state of the session (C31, C32), under SpecApp.               *)
(***************************************************************************)
\* C31: the C key pressed in an Error state starts fresh: the previousValue
\* and the operation of the failed calculation are pending no longer, so no
\* later equals or operator key computes with them
C31_ClearAfterErrorStartsFresh ==
  (Pressed("C") /\ typed.before.error) =>
    /\ ~state.error
    /\ state.operation = null
    /\ state.previousValue = <<>>

\* C32: in an Error state the handlers of the sign, operator, equals and
\* backspace keys return the state with every field as it was, and those of
\* a digit, the decimal key, Clear and All Clear return a state without
\* error; so it is on the screen: after the former keys the session is the
\* one before, and the latter are the only keys after which the error flag
\* is down
C32_ErrorIgnoresKeys ==
  /\ state.error =>
       /\ \A key \in {"neg", "=", "back"} \cup Operations : press(state, key, mode) = state
       /\ \A key \in {".", "C"} \cup {DigitChars[i] : i \in DOMAIN DigitChars} :
            ~press(state, key, mode).error
       /\ ~handleAllClear(state).error
  /\ \A key \in Keys :
       (Pressed(key) /\ typed.before.error) =>
         IF key \in {"neg", "=", "back"} \cup Operations
         THEN state = typed.before
         ELSE /\ IsDigit(key) \/ key \in {".", "C", "AC"}
              /\ ~state.error

\* 5 / 0 = and the minus key: the Error state of the equals key stays
C32_Witness ==
  /\ typed.keys = <<"5", DIVIDE, "0", "=", MINUS>>
  /\ typed.before.error
  /\ state.error /\ state.operation = DIVIDE /\ state.previousValue = <<Dec(5, 0)>>
  /\ state = typed.before

(***************************************************************************)
(* The fields of the session (C33, C34), under SpecApp.                    *)
(***************************************************************************)
\* only keys of the session have been pressed since the mount
OnlyKeys ==
  \A i \in DOMAIN typed.keys :
    IsDigit(typed.keys[i]) \/ typed.keys[i] \in Keys \cup Operations

\* text is an optional "-", then digits with at most one point among them,
\* at least one digit, and no zero in front of another digit of the integer
\* part
NumericText(text) ==
  \E body \in {IF text # <<>> /\ Head(text) = "-" THEN Tail(text) ELSE text} :
    /\ \A i \in DOMAIN body : IsDigit(body[i]) \/ body[i] = "."
    /\ \E i \in DOMAIN body : IsDigit(body[i])
    /\ Cardinality({i \in DOMAIN body : body[i] = "."}) <= 1
    /\ ~(Len(body) >= 2 /\ body[1] = "0" /\ IsDigit(body[2]))

\* C33: in every session state reached from the initial state through the
\* key handlers (digit, decimal, sign, operator, equals, backspace, Clear,
\* All Clear) the display is valid numeric text
C33_DisplayIsNumericText == OnlyKeys => NumericText(state.display)

\* C34: in every state of the session, and in every snapshot of the undo
\* stack, a pending operation has its first operand: operation is null or
\* previousValue is not
C34_OperationHasOperand ==
  /\ state.operation # null => state.previousValue # <<>>
  /\ \A i \in DOMAIN undoRedo.stack :
       undoRedo.stack[i].operation # null => undoRedo.stack[i].previousValue # <<>>

\* 5 and the minus key: the operation is pending, 5 is its first operand
C34_Witness ==
  /\ typed.keys = <<"5", MINUS>>
  /\ state.operation = MINUS
  /\ state.previousValue = <<Dec(5, 0)>>

(***************************************************************************)
(* The stack of the History Manager (C35, C36), under SpecHistory.         *)
(***************************************************************************)
\* C35: a pushState onto a stack of 20 snapshots with currentIndex 19 drops
\* the snapshot at index 0 and nothing else: the other 19 follow in their
\* order, the new snapshot is the last, currentIndex stays 19; so a manager
\* that has only been pushed to, n times, holds the seed and the n snapshots
\* in the order of the pushes when n < 20 and the last 20 of them otherwise
C35_PushEvictsOldestOnly ==
  /\ [](run.shape = "pushes" =>
          /\ Len(undoRedo.stack) = (IF run.pushes < 20 THEN run.pushes + 1 ELSE 20)
          /\ \A i \in DOMAIN undoRedo.stack :
               undoRedo.stack[i] = Snap(run.pushes - Len(undoRedo.stack) + i))
  /\ [][(/\ PushStep
         /\ Len(undoRedo.stack) = UNDO_REDO_STACK_SIZE
         /\ undoRedo.currentIndex = UNDO_REDO_STACK_SIZE - 1) =>
          /\ undoRedo'.stack = Append(Tail(undoRedo.stack), Snap(env'.pushed))
          /\ undoRedo'.currentIndex = UNDO_REDO_STACK_SIZE - 1]_vars

\* 25 pushes onto a fresh manager: the snapshots 6 to 25 are held
C35_Witness ==
  /\ run.shape = "pushes" /\ run.pushes = 25 /\ hist.op = "pushState"
  /\ hist.before = <<19, 20>>
  /\ undoRedo.stack[1] = Snap(6) /\ undoRedo.stack[20] = Snap(25)
  /\ undoRedo.currentIndex = 19

\* C36: the stack is never empty and currentIndex is one of its positions,
\* 0 <= currentIndex <= stack.length - 1; what an undo or redo hands to its
\* callback is the seed or a snapshot pushed earlier, the one at the new
\* currentIndex; after clear(s) the stack is [s], currentIndex is 0 and the
\* feedback is null
C36_IndexInsideStack ==
  /\ undoRedo.stack # <<>>
  /\ undoRedo.currentIndex >= 0
  /\ undoRedo.currentIndex <= Len(undoRedo.stack) - 1
  /\ (hist.op \in {"undo", "redo"} /\ hist.onStateChange # <<>>) =>
       /\ hist.onStateChange[1] \in {Snap(k) : k \in 0..env.pushed}
       /\ hist.onStateChange[1] = At(undoRedo.stack, undoRedo.currentIndex)
  /\ hist.op = "clear" =>
       /\ undoRedo = [stack |-> <<INITIAL_STATE>>, currentIndex |-> 0]
       /\ feedback = <<>>
       /\ ~canUndo(undoRedo) /\ ~canRedo(undoRedo)

\* a full stack, an undo down to the seed's place and a redo: the callback
\* got the snapshot at index 1
C36_Witness ==
  /\ hist.op = "redo" /\ hist.before = <<0, 20>>
  /\ undoRedo.currentIndex = 1
  /\ hist.onStateChange = <<At(undoRedo.stack, 1)>>
  /\ Len(undoRedo.stack) = UNDO_REDO_STACK_SIZE

(***************************************************************************)
(* The selection of a history entry (C37), under SpecApp.                  *)
(***************************************************************************)
\* entry holds the result of an equals key pressed earlier whose calculation
\* succeeded
OfSuccessfulEquals(entry) ==
  \E i \in DOMAIN typed.keys :
    /\ typed.keys[i] = "="
    /\ \E b \in {appAfter(SubSeq(typed.keys, 1, i - 1), mode).state} :
         /\ EqualsSucceeds(b)
         /\ handleEquals(b, mode).previousValue = <<entry.result>>

\* C37: after the selection of a history entry that holds the result of a
\* successful equals the session has no error and no pending operation, and
\* the number getDisplayValue reads from its display is the result of the
\* entry, the number an operator key pressed next stores as previousValue
C37_SelectedEntryShowsItsResult ==
  (Pressed("select") /\ app.history # <<>> /\ OfSuccessfulEquals(app.history[1])) =>
    /\ ~state.error
    /\ state.operation = null
    /\ getDisplayValue(state.display) = app.history[1].result
    /\ handleOperatorPress(state, PLUS, mode).previousValue = <<app.history[1].result>>
====
